---- MODULE Spec2Model ----
(***************************************************************************)
(* Retrieval-augmented answer pipeline of the digital-twin application:    *)
(* the external knowledge resolver, the streaming chat endpoint, the basic *)
(* and the enhanced batch query, and the conversation store.               *)
(*                                                                         *)
(* Conventions.  A JavaScript value that may be null/undefined is a        *)
(* sequence of length 0 or 1.  Scores and confidences are hundredths       *)
(* (0.5 is 50).  A JavaScript number is a rational [n, d]; d = 0 encodes   *)
(* Infinity (n = 1) and NaN (n = 0).  Strings are TLC strings; Len, SubSeq *)
(* and \o act on them character by character.                              *)
(***************************************************************************)
EXTENDS Integers, Sequences, FiniteSets, TLC

VARIABLES
    pc,                 \* position of the request being served
    route,              \* which entry point serves the request
    input,              \* the parts the question was built from
    question,           \* the question of the request
    externalKnowledge,  \* result of getExternalKnowledge(question)
    events,             \* event records enqueued on the stream controller
    closed,             \* controller.close() has been called
    escaped,            \* an exception left the handler (start() rejected)
    fullAnswer,         \* the answer accumulated for the conversation store
    results,            \* what index.query returned to the handler
    prompt,             \* the user prompt sent to the inference provider
    cursor,             \* characters of the canned answer already streamed
    providerChunks,     \* delta contents the provider stream has delivered
    calls,              \* calls so far, in order: [by, op, arg, ok]
    store,              \* records upserted into the index by this model
    provider,           \* the provider stream: none, open, ended or failed
    contextParts,       \* the parts the streaming handler joins as context
    searchQuery,        \* the query text the batch path sends to the index
    response,           \* what a batch query returned to its caller
    now,                \* what Date.now() returns, in milliseconds
    conversations,      \* what the calls of storeConversation returned
    subs,               \* the feedback submissions being served
    fetchIncludes,      \* index.fetch returns metadata and data unasked
    cancelledAt,        \* chunks read when the client cancelled the stream
    self,               \* which request the handler code is running for
    parked,             \* locals of the request suspended at an await
    metrics             \* what getLearningMetrics returned

vars == <<pc, route, input, question, externalKnowledge, events, closed,
          escaped, fullAnswer, results, prompt, cursor, providerChunks,
          calls, store, provider, contextParts, searchQuery, response,
          now, conversations, subs, fetchIncludes, cancelledAt, self,
          parked, metrics>>

queryVars == <<pc, route, input, question, externalKnowledge, events, closed,
               escaped, fullAnswer, results, prompt, cursor, providerChunks,
               calls, provider, contextParts, searchQuery, response>>

learningVars ==
    <<now, conversations, subs, fetchIncludes, self, parked, metrics>>

(***************************************************************************)
(* Bounds of the model.                                                    *)
(***************************************************************************)
MaxResults == 2
MaxChunks == 3
MaxTime == 1

Null == << >>
Some(x) == <<x>>

Min(S) == CHOOSE x \in S : \A y \in S : x <= y

(***************************************************************************)
(* String primitives of the JavaScript runtime.                            *)
(***************************************************************************)
UpperChars == "ABCDEFGHIJKLMNOPQRSTUVWXYZ"
LowerChars == "abcdefghijklmnopqrstuvwxyz"
DigitChars == "0123456789"

CharAt(s, i) == SubSeq(s, i, i)

IndexIn(alphabet, c) ==
    LET I == {i \in 1..Len(alphabet) : CharAt(alphabet, i) = c}
    IN  IF I = {} THEN 0 ELSE Min(I)

RECURSIVE toLowerCase(_)
toLowerCase(s) ==
    IF Len(s) = 0 THEN ""
    ELSE LET c == CharAt(s, 1)
             u == IndexIn(UpperChars, c)
         IN  (IF u = 0 THEN c ELSE CharAt(LowerChars, u))
                 \o toLowerCase(SubSeq(s, 2, Len(s)))

includes(s, k) ==
    \E i \in 1..(Len(s) - Len(k) + 1) : SubSeq(s, i, i + Len(k) - 1) = k

startsWithAt(s, i, k) ==
    /\ i + Len(k) - 1 <= Len(s)
    /\ SubSeq(s, i, i + Len(k) - 1) = k

IsDigit(c) == c \in {CharAt(DigitChars, k) : k \in 1..Len(DigitChars)}
IsSpace(c) == c \in {" ", "\t", "\n"}

\* number of characters from position i on that satisfy the class
RECURSIVE DigitRun(_, _)
DigitRun(s, i) ==
    IF i <= Len(s) /\ IsDigit(CharAt(s, i)) THEN 1 + DigitRun(s, i + 1) ELSE 0

RECURSIVE SpaceRun(_, _)
SpaceRun(s, i) ==
    IF i <= Len(s) /\ IsSpace(CharAt(s, i)) THEN 1 + SpaceRun(s, i + 1) ELSE 0

trimStart(s) == SubSeq(s, 1 + SpaceRun(s, 1), Len(s))

RECURSIVE trimEnd(_)
trimEnd(s) ==
    IF Len(s) > 0 /\ IsSpace(CharAt(s, Len(s)))
    THEN trimEnd(SubSeq(s, 1, Len(s) - 1)) ELSE s

trim(s) == trimEnd(trimStart(s))

(***************************************************************************)
(* JavaScript numbers, as far as the calculator uses them.                 *)
(***************************************************************************)
RECURSIVE GCD(_, _)
GCD(a, b) == IF b = 0 THEN a ELSE GCD(b, a % b)

Abs(a) == IF a < 0 THEN 0 - a ELSE a

Norm(n, d) ==
    LET g == GCD(Abs(n), d) IN [n |-> n \div g, d |-> d \div g]

RECURSIVE Pow10(_)
Pow10(k) == IF k = 0 THEN 1 ELSE 10 * Pow10(k - 1)

RECURSIVE ParseDigits(_)
ParseDigits(s) ==
    IF Len(s) = 0 THEN 0
    ELSE 10 * ParseDigits(SubSeq(s, 1, Len(s) - 1))
            + (IndexIn(DigitChars, CharAt(s, Len(s))) - 1)

\* parseFloat of a text matched by \d+\.?\d*
parseFloat(t) ==
    LET whole == DigitRun(t, 1)
        frac  == IF whole < Len(t) THEN SubSeq(t, whole + 2, Len(t)) ELSE ""
    IN  Norm(ParseDigits(SubSeq(t, 1, whole)) * Pow10(Len(frac))
                + ParseDigits(frac), Pow10(Len(frac)))

NumAdd(x, y) == Norm(x.n * y.d + y.n * x.d, x.d * y.d)
NumSub(x, y) == Norm(x.n * y.d - y.n * x.d, x.d * y.d)
NumMul(x, y) == Norm(x.n * y.n, x.d * y.d)
NumDiv(x, y) ==
    IF y.n = 0 THEN [n |-> IF x.n = 0 THEN 0 ELSE 1, d |-> 0]
    ELSE Norm(x.n * y.d, x.d * y.n)

RECURSIVE PadDigits(_, _)
PadDigits(m, k) ==
    IF k = 0 THEN "" ELSE PadDigits(m \div 10, k - 1) \o ToString(m % 10)

\* template-literal conversion of a number; a quotient with no finite
\* decimal expansion is written n/d, standing for the digits of the double
NumberToString(x) ==
    IF x.d = 0 THEN (IF x.n = 0 THEN "NaN" ELSE "Infinity")
    ELSE IF x.d = 1 THEN ToString(x.n)
    ELSE LET K == {k \in 1..6 : Pow10(k) % x.d = 0}
         IN  IF K = {} THEN ToString(x.n) \o "/" \o ToString(x.d)
             ELSE LET k == Min(K)
                      m == Abs(x.n) * (Pow10(k) \div x.d)
                  IN  (IF x.n < 0 THEN "-" ELSE "")
                          \o ToString(m \div Pow10(k)) \o "."
                          \o PadDigits(m % Pow10(k), k)

(***************************************************************************)
(* External knowledge resolver.                                            *)
(***************************************************************************)
Hit(answer, source, confidence) ==
    Some([answer |-> answer, source |-> source, confidence |-> confidence])

someIncludes(keywords, query) ==
    \E i \in 1..Len(keywords) : includes(toLowerCase(query), keywords[i])

\* the date is formatted by the runtime's locale; its text is not modelled
CurrentDateTimeAnswer == "Right now it's <time> on <date>."

getCurrentDateTime(query) ==
    LET timeKeywords == <<"time", "date", "today", "now", "current", "what day">>
    IN  IF ~someIncludes(timeKeywords, query) THEN Null
        ELSE Hit(CurrentDateTimeAnswer, "system_time", 100)

\* end (exclusive) of a match of \.?\d* starting at e
FractionEnd(s, e) ==
    IF e <= Len(s) /\ CharAt(s, e) = "." THEN e + 1 + DigitRun(s, e + 1)
    ELSE e

\* end (exclusive) of a match of \d+\.?\d* starting at i, 0 when there is none
NumberEnd(s, i) ==
    IF DigitRun(s, i) = 0 THEN 0 ELSE FractionEnd(s, i + DigitRun(s, i))

\* the first element of a sequence of optional values that is not null
FirstNonNull(options) ==
    IF \A k \in 1..Len(options) : options[k] = Null THEN Null
    ELSE options[Min({k \in 1..Len(options) : options[k] # Null})]

\* the groups of a match whose first number ends at e1, whose operator op
\* starts at o and whose second number runs from b to e3
MatchGroups(s, i, e1, op, b, e3) ==
    IF e3 = 0 THEN Null
    ELSE Some([g1 |-> SubSeq(s, i, e1 - 1), g2 |-> op,
               g3 |-> SubSeq(s, b, e3 - 1)])

MatchSecondNumber(s, i, e1, op, b) ==
    MatchGroups(s, i, e1, op, b, NumberEnd(s, b))

MatchOperator(s, i, e1, o, op) ==
    IF ~startsWithAt(toLowerCase(s), o, op) THEN Null
    ELSE MatchSecondNumber(s, i, e1, op, o + Len(op) + SpaceRun(s, o + Len(op)))

MatchAfterNumber(s, i, e1, ops) ==
    IF e1 = 0 THEN Null
    ELSE FirstNonNull([k \in 1..Len(ops) |->
            MatchOperator(s, i, e1, e1 + SpaceRun(s, e1), ops[k])])

\* match of (\d+\.?\d*)\s*(<operator>)\s*(\d+\.?\d*) starting at i, for the
\* operator alternatives ops tried in order
MatchExprAt(s, i, ops) == MatchAfterNumber(s, i, NumberEnd(s, i), ops)

\* String.prototype.match: the leftmost match
MatchSymbolPattern(s) ==
    FirstNonNull([i \in 1..Len(s) |->
        MatchExprAt(s, i, <<"+", "-", "*", "/">>)])

MatchWordLead == "what is "

MatchWordPattern(s) ==
    FirstNonNull([i \in 1..Len(s) |->
        IF startsWithAt(toLowerCase(s), i, MatchWordLead)
        THEN MatchExprAt(s, i + Len(MatchWordLead),
                         <<"plus", "minus", "times", "divided by">>)
        ELSE Null])

operatorMap(operator) ==
    CASE operator = "plus" -> "+"
      [] operator = "minus" -> "-"
      [] operator = "times" -> "*"
      [] operator = "divided by" -> "/"
      [] OTHER -> operator

Compute(num1, operator, num2) ==
    CASE operator = "+" -> NumAdd(num1, num2)
      [] operator = "-" -> NumSub(num1, num2)
      [] operator = "*" -> NumMul(num1, num2)
      [] operator = "/" -> NumDiv(num1, num2)

MathResult(num1, operator, num2) ==
    Hit(NumberToString(num1) \o " " \o operator \o " "
            \o NumberToString(num2) \o " = "
            \o NumberToString(Compute(num1, operator, num2)),
        "calculator", 100)

MathAnswer(m) ==
    IF m = Null THEN Null
    ELSE MathResult(parseFloat(m[1].g1), operatorMap(m[1].g2),
                    parseFloat(m[1].g3))

calculateMath(query) ==
    LET mathKeywords == <<"calculate", "what is", "how much", "+", "-", "*",
                          "/", "multiply", "divide", "add", "subtract">>
    IN  IF ~someIncludes(mathKeywords, query) THEN Null
        ELSE MathAnswer(FirstNonNull(<<MatchSymbolPattern(query),
                                       MatchWordPattern(query)>>))

LocationAnswer ==
    "I'm based in Nepal, and I work as a Full-Stack Developer. I'm available for remote opportunities globally!"

getLocationInfo(query) ==
    LET locationKeywords == <<"where are you", "your location",
                              "where do you live", "where from", "location">>
    IN  IF ~someIncludes(locationKeywords, query) THEN Null
        ELSE Hit(LocationAnswer, "profile_location", 100)

definitions == <<
    <<"ai", "AI stands for Artificial Intelligence - the simulation of human intelligence by machines.">>,
    <<"ml", "ML stands for Machine Learning - a subset of AI where systems learn from data.">>,
    <<"api", "API stands for Application Programming Interface - a way for software to communicate.">>,
    <<"ui", "UI stands for User Interface - the visual elements users interact with.">>,
    <<"ux", "UX stands for User Experience - how users feel when using a product.">>,
    <<"html", "HTML stands for HyperText Markup Language - the standard language for web pages.">>,
    <<"css", "CSS stands for Cascading Style Sheets - used to style HTML elements.">>,
    <<"json", "JSON stands for JavaScript Object Notation - a lightweight data format.">>,
    <<"rest", "REST stands for Representational State Transfer - an architectural style for APIs.">>,
    <<"crud", "CRUD stands for Create, Read, Update, Delete - basic database operations.">>,
    <<"sql", "SQL stands for Structured Query Language - used to manage databases.">>,
    <<"git", "Git is a distributed version control system for tracking code changes.">>,
    <<"github", "GitHub is a platform for hosting and collaborating on Git repositories.">>,
    <<"npm", "npm stands for Node Package Manager - the package manager for JavaScript.">>,
    <<"url", "URL stands for Uniform Resource Locator - a web address.">>,
    <<"http", "HTTP stands for HyperText Transfer Protocol - the foundation of data communication on the web.">>,
    <<"https", "HTTPS stands for HTTP Secure - encrypted version of HTTP.">>,
    <<"ssl", "SSL stands for Secure Sockets Layer - encryption protocol (now TLS).">>,
    <<"tls", "TLS stands for Transport Layer Security - cryptographic protocol for secure communication.">>,
    <<"dns", "DNS stands for Domain Name System - translates domain names to IP addresses.">>,
    <<"ip", "IP stands for Internet Protocol - the address system of the internet.">>,
    <<"tcp", "TCP stands for Transmission Control Protocol - ensures reliable data delivery.">>,
    <<"udp", "UDP stands for User Datagram Protocol - fast but unreliable data transmission.">>,
    <<"seo", "SEO stands for Search Engine Optimization - improving website visibility in search results.">>,
    <<"saas", "SaaS stands for Software as a Service - software delivered over the internet.">>,
    <<"paas", "PaaS stands for Platform as a Service - cloud platform for developing applications.">>,
    <<"iaas", "IaaS stands for Infrastructure as a Service - virtualized computing resources.">>,
    <<"aws", "AWS stands for Amazon Web Services - a comprehensive cloud computing platform.">>,
    <<"gcp", "GCP stands for Google Cloud Platform - Google's cloud computing services.">>,
    <<"azure", "Azure is Microsoft's cloud computing platform and services.">>,
    <<"docker", "Docker is a platform for developing and running applications in containers.">>,
    <<"kubernetes", "Kubernetes (K8s) is a container orchestration platform for automating deployment.">>,
    <<"devops", "DevOps combines software development and IT operations for faster delivery.">>,
    <<"cicd", "CI/CD stands for Continuous Integration/Continuous Deployment - automated software delivery.">>,
    <<"agile", "Agile is an iterative approach to software development emphasizing flexibility.">>,
    <<"scrum", "Scrum is an Agile framework with sprints, stand-ups, and iterative development.">>,
    <<"mvp", "MVP stands for Minimum Viable Product - a product with core features for early users.">>,
    <<"jwt", "JWT stands for JSON Web Token - a compact way to securely transmit information.">>,
    <<"oauth", "OAuth is an open standard for access delegation and authorization.">>,
    <<"regex", "Regex (Regular Expression) is a pattern for matching text strings.">>,
    <<"ide", "IDE stands for Integrated Development Environment - software for coding (like VS Code).">>,
    <<"cli", "CLI stands for Command Line Interface - text-based interface for commands.">>,
    <<"gui", "GUI stands for Graphical User Interface - visual interface with windows and buttons.">>,
    <<"cdn", "CDN stands for Content Delivery Network - distributed servers for faster content delivery.">>,
    <<"orm", "ORM stands for Object-Relational Mapping - converts data between databases and objects.">>,
    <<"webhook", "A webhook is an automated message sent when an event occurs.">>,
    <<"microservice", "Microservices are small, independent services that work together.">>,
    <<"monolith", "A monolithic application is a single, unified software architecture.">>,
    <<"frontend", "Frontend is the client-side part of an application that users interact with.">>,
    <<"backend", "Backend is the server-side part that handles logic, databases, and APIs.">>,
    <<"fullstack", "Full-stack refers to both frontend and backend development.">>,
    <<"framework", "A framework is a pre-built structure for developing applications.">>,
    <<"library", "A library is a collection of reusable code functions.">>,
    <<"repository", "A repository (repo) is a storage location for code and version history.">>,
    <<"commit", "A commit is a saved snapshot of changes in version control.">>,
    <<"branch", "A branch is an independent line of development in version control.">>,
    <<"merge", "Merge combines changes from different branches.">>,
    <<"pull request", "A pull request (PR) is a proposal to merge code changes.">>,
    <<"code review", "Code review is examining code for quality before merging.">>,
    <<"debugging", "Debugging is finding and fixing errors in code.">>,
    <<"refactoring", "Refactoring is improving code structure without changing behavior.">>,
    <<"deployment", "Deployment is releasing software to a production environment.">>,
    <<"production", "Production is the live environment where users access the application.">>,
    <<"staging", "Staging is a pre-production environment for testing.">>,
    <<"localhost", "Localhost (127.0.0.1) refers to your own computer in networking.">>,
    <<"port", "A port is a communication endpoint for network services.">>,
    <<"endpoint", "An endpoint is a specific URL where an API can be accessed.">>,
    <<"middleware", "Middleware is software that connects different applications or services.">>,
    <<"cache", "Cache is temporary storage for frequently accessed data.">>,
    <<"session", "A session maintains user state across multiple requests.">>,
    <<"cookie", "A cookie is small data stored by websites in your browser.">>,
    <<"token", "A token is a piece of data used for authentication or authorization.">>,
    <<"encryption", "Encryption converts data into code to prevent unauthorized access.">>,
    <<"hashing", "Hashing converts data into a fixed-size string (one-way function).">>,
    <<"algorithm", "An algorithm is a step-by-step procedure for solving a problem.">>,
    <<"data structure", "A data structure organizes and stores data efficiently.">>,
    <<"async", "Async (asynchronous) means operations that don't block code execution.">>,
    <<"promise", "A Promise represents a future value from an asynchronous operation.">>,
    <<"callback", "A callback is a function passed to another function to be executed later.">>,
    <<"event", "An event is an action that occurs in the system (click, load, etc.).">>,
    <<"listener", "A listener waits for and responds to specific events.">>,
    <<"component", "A component is a reusable, self-contained piece of UI.">>,
    <<"props", "Props are arguments passed to components (like function parameters).">>,
    <<"state", "State is data that changes over time in an application.">>,
    <<"hook", "A hook is a function that lets you use features in functional components.">>,
    <<"render", "Render means displaying content on the screen.">>,
    <<"dom", "DOM stands for Document Object Model - the structure of a web page.">>,
    <<"virtual dom", "Virtual DOM is a lightweight copy of the DOM for efficient updates.">>,
    <<"spa", "SPA stands for Single Page Application - loads once and updates dynamically.">>,
    <<"ssr", "SSR stands for Server-Side Rendering - HTML generated on the server.">>,
    <<"csr", "CSR stands for Client-Side Rendering - HTML generated in the browser.">>,
    <<"ssg", "SSG stands for Static Site Generation - HTML generated at build time.">>,
    <<"responsive", "Responsive design adapts to different screen sizes.">>,
    <<"mobile first", "Mobile-first design starts with mobile layout then scales up.">>,
    <<"breakpoint", "A breakpoint defines when a layout changes for different screen sizes.">>,
    <<"flexbox", "Flexbox is a CSS layout system for responsive designs.">>,
    <<"grid", "CSS Grid is a 2D layout system for complex designs.">>,
    <<"typescript", "TypeScript is JavaScript with type safety and better tooling.">>,
    <<"jsx", "JSX is a syntax extension that lets you write HTML-like code in JavaScript.">>,
    <<"babel", "Babel is a JavaScript compiler that converts modern JS to older versions.">>,
    <<"webpack", "Webpack is a module bundler for JavaScript applications.">>,
    <<"vite", "Vite is a fast build tool and development server.">>,
    <<"eslint", "ESLint is a tool for identifying and fixing JavaScript code issues.">>,
    <<"prettier", "Prettier is a code formatter for consistent code style.">>,
    <<"test", "Testing verifies that code works as expected.">>,
    <<"unit test", "Unit tests verify individual functions or components.">>,
    <<"integration test", "Integration tests verify how different parts work together.">>,
    <<"e2e", "E2E (End-to-End) tests simulate real user scenarios.">>,
    <<"mock", "A mock is a fake version of code used for testing.">>,
    <<"bug", "A bug is an error or flaw in software.">>,
    <<"hotfix", "A hotfix is a quick patch for a critical bug in production.">>,
    <<"tech debt", "Technical debt is the cost of quick solutions that need refactoring later.">>,
    <<"scalability", "Scalability is the ability to handle increased load.">>,
    <<"optimization", "Optimization improves performance and efficiency.">>,
    <<"latency", "Latency is the delay before data transfer begins.">>,
    <<"throughput", "Throughput is the amount of data processed in a given time.">>,
    <<"bandwidth", "Bandwidth is the maximum data transfer rate.">>,
    <<"api key", "An API key is a unique identifier for authenticating API requests.">>,
    <<"environment variable", "Environment variables store configuration outside code.">>,
    <<"dotenv", "dotenv loads environment variables from a .env file.">>
    >>

getDefinition(query) ==
    LET defKeywords == <<"what is", "what does", "define", "meaning of",
                         "full form", "abbreviation">>
        queryLower == toLowerCase(query)
        T == {k \in 1..Len(definitions) : includes(queryLower, definitions[k][1])}
    IN  IF ~someIncludes(defKeywords, query) THEN Null
        ELSE IF T = {} THEN Null
        ELSE Hit(definitions[Min(T)][2], "knowledge_base", 95)

WeatherAnswer ==
    "I don't have access to real-time weather data yet, but you can check weather.com or your local weather service for current conditions!"

getWeatherInfo(query) ==
    LET weatherKeywords == <<"weather", "temperature", "forecast", "rain",
                             "sunny", "cold", "hot">>
    IN  IF ~someIncludes(weatherKeywords, query) THEN Null
        ELSE Hit(WeatherAnswer, "weather_placeholder", 50)

\* a resolver that tries the calculator before the clock
getExternalKnowledge_MathFirst(query) ==
    FirstNonNull(<<calculateMath(query), getCurrentDateTime(query),
                   getLocationInfo(query), getDefinition(query),
                   getWeatherInfo(query)>>)

getExternalKnowledge(query) ==
    FirstNonNull(<<getCurrentDateTime(query), calculateMath(query),
                   getLocationInfo(query), getDefinition(query),
                   getWeatherInfo(query)>>)

(***************************************************************************)
(* Conversation store.                                                     *)
(***************************************************************************)
IsWordChar(c) ==
    \/ IndexIn(UpperChars, c) # 0
    \/ IndexIn(LowerChars, c) # 0
    \/ IsDigit(c)
    \/ c = "_"

\* /\b(w1|w2|...)\b/ finds a match in s
matchesWord(s, words) ==
    \E w \in words : \E i \in 1..Len(s) :
        /\ startsWithAt(s, i, w)
        /\ (i = 1 \/ ~IsWordChar(CharAt(s, i - 1)))
        /\ (i + Len(w) > Len(s) \/ ~IsWordChar(CharAt(s, i + Len(w))))

extractTopics(q) ==
    LET lowerQuestion == toLowerCase(q)
        topics ==
            (IF matchesWord(lowerQuestion, {"javascript", "typescript", "react",
                    "nextjs", "next.js", "nodejs", "node.js", "python", "java"})
             THEN <<"technical_skills">> ELSE << >>)
            \o (IF matchesWord(lowerQuestion, {"project", "built", "created",
                    "developed", "github", "repository"})
                THEN <<"projects">> ELSE << >>)
            \o (IF matchesWord(lowerQuestion, {"experience", "work", "job",
                    "company", "role", "position"})
                THEN <<"experience">> ELSE << >>)
            \o (IF matchesWord(lowerQuestion, {"education", "degree",
                    "university", "college", "study", "learn"})
                THEN <<"education">> ELSE << >>)
            \o (IF matchesWord(lowerQuestion, {"name", "who", "about",
                    "yourself", "background"})
                THEN <<"personal">> ELSE << >>)
    IN  IF Len(topics) > 0 THEN topics ELSE <<"general">>

RECURSIVE join(_, _)
join(parts, sep) ==
    IF Len(parts) = 0 THEN ""
    ELSE IF Len(parts) = 1 THEN parts[1]
    ELSE parts[1] \o sep \o join(Tail(parts), sep)

\* Date.now() and new Date(), and the random suffix of a conversation id
Times == 1..MaxTime
Suffixes == {"k3x9q"}

ConversationId(t, r) == "conversation_" \o ToString(t) \o "_" \o r

\* the record index.upsert writes for a conversation
ConversationRecord(id, q, answer, t, category, confidence) ==
    [id |-> id,
     data |-> "Question: " \o q \o "\nAnswer: " \o answer,
     type |-> "conversation",
     question |-> q,
     answer |-> answer,
     feedback |-> Null,
     timestamp |-> t,
     category |-> IF category = "" THEN "general" ELSE category,
     confidence |-> confidence]

upsert(index, record) == {r \in index : r.id # record.id} \cup {record}

(***************************************************************************)
(* What the index service can return: ranked matches with metadata.        *)
(***************************************************************************)
ScoreFloor == 50
MinPartLength == 10

Match(id, score, title, content, text) ==
    [id |-> id, score |-> score, title |-> title, content |-> content,
     text |-> text]

Matches ==
    { Match("chunk_skills", 80, "Technical Skills",
            "I build web apps with React and Next.js", ""),
      Match("chunk_projects", 50, "Projects",
            "Job Tracker and PDFly are my projects", ""),
      Match("chunk_education", 30, "Education",
            "Bachelor degree at Victoria University", ""),
      Match("conversation_0_aaaaa", 80, "", "", ""),
      Match("chunk_city", 80, "Location", "Sydney", ""),
      Match("chunk_legacy", 80, "", "", "Imported note about my background") }

\* ranked by descending score, one entry per record
ResultLists ==
    {r \in UNION {[1..n -> Matches] : n \in 0..MaxResults} :
        /\ \A i, j \in 1..Len(r) : i < j => r[i].score >= r[j].score
        /\ \A i, j \in 1..Len(r) : i # j => r[i].id # r[j].id}

(***************************************************************************)
(* Streaming chat endpoint.                                                *)
(***************************************************************************)
Event(type, content) == [type |-> type, content |-> content]

\* the canned replies, cut to their first sentence
HowAreYouReply == "Hey! I'm doing great, thanks for asking!"
NiceToMeetReply == "Nice to meet you too!"
GreetingReply == "Hello! I'm Diwan Malla, a Full-Stack Developer based in Sydney."

\* /^(a1|a2|...)[\s!?.]*$/i
matchesPhrase(s, phrases) ==
    \E a \in phrases :
        /\ startsWithAt(toLowerCase(s), 1, a)
        /\ \A i \in (Len(a) + 1)..Len(s) :
              IsSpace(CharAt(s, i)) \/ CharAt(s, i) \in {"!", "?", "."}

casualGreetings ==
    {"hi", "hello", "hey", "howdy", "greetings", "good morning",
     "good afternoon", "good evening", "sup", "wassup", "yo"}
howAreYou ==
    {"how are you", "how r u", "how're you", "how are ya", "hows it going",
     "how's it going", "what's up", "whats up", "whatcha doing",
     "what are you doing"}
niceToMeet ==
    {"nice to meet you", "pleasure to meet you", "good to meet you"}

conversationalResponse(q) ==
    IF matchesPhrase(trim(q), howAreYou) THEN HowAreYouReply
    ELSE IF matchesPhrase(trim(q), niceToMeet) THEN NiceToMeetReply
    ELSE IF matchesPhrase(trim(q), casualGreetings) THEN GreetingReply
    ELSE ""

intentKeywords == <<
    <<{"project", "portfolio", "built", "developed", "created", "made"},
      "portfolio projects built developed created applications Job Tracker PDFly SangeetX BrainiX">>,
    <<{"experience", "work", "job", "employment", "company", "career"},
      "work experience employment career history Barnamala Hamro Chautari achievements responsibilities">>,
    <<{"skill", "technolog", "expertise", "proficien", "know", "language", "framework", "tool"},
      "technical skills expertise programming languages frameworks libraries React Next.js Node.js TypeScript Python JavaScript">>,
    <<{"frontend", "front-end", "ui", "interface", "react", "angular", "vue"},
      "frontend front-end UI React Next.js TypeScript Material UI Tailwind CSS responsive design">>,
    <<{"backend", "back-end", "server", "api", "database"},
      "backend back-end server Node.js Express Python Flask REST API PostgreSQL MongoDB">>,
    <<{"cloud", "aws", "deploy", "devops", "cicd", "ci/cd"},
      "cloud AWS DevOps CI/CD GitHub Actions Docker deployment infrastructure">>,
    <<{"education", "degree", "university", "college", "certification", "course"},
      "education Bachelor degree Victoria University IBM Meta certification training">>,
    <<{"name", "who", "identity"},
      "name Diwan Malla identity Full-Stack Developer">>,
    <<{"location", "where", "live", "based"},
      "location Sydney Australia remote relocation">>,
    <<{"salary", "compensation", "pay", "expectation"},
      "salary compensation expectations mid-level senior AUD">>,
    <<{"goal", "future", "aspiration", "looking for", "seeking", "want"},
      "career goals aspirations target senior technical lead AI/ML SaaS">>,
    <<{"learning", "learn", "study", "upskill"},
      "learning professional development certifications courses C# .NET Angular">>,
    <<{"leadership", "lead", "mentor", "team", "manage", "collaborate"},
      "leadership mentoring team collaboration Agile cross-functional code reviews">>,
    <<{"achievement", "accomplishment", "success", "impact", "result"},
      "achievements impact results metrics improvements performance 35% 40% 95%">>
    >>

enhancedQuery(q) ==
    LET lowerQuestion == toLowerCase(q)
        I == {k \in 1..Len(intentKeywords) :
                \E w \in intentKeywords[k][1] : includes(lowerQuestion, w)}
    IN  IF I = {} THEN q ELSE q \o " " \o intentKeywords[Min(I)][2]

\* r.metadata?.content || r.metadata?.text || ""
PartOf(r) == IF r.content # "" THEN r.content ELSE r.text

\* a floor test that lets the floor itself through
AboveFloor_Inclusive(r) == r.score >= ScoreFloor

AboveFloor(r) == r.score > ScoreFloor
LongEnough(part) == Len(part) > MinPartLength

contextPartsOf(res) ==
    LET kept == SelectSeq(res, AboveFloor)
        parts == [i \in 1..Len(kept) |-> PartOf(kept[i])]
    IN  SelectSeq(parts, LongEnough)

contextOf(res) == join(contextPartsOf(res), "\n\n---\n\n")

externalContextOf(externalInfo) ==
    IF externalInfo = Null THEN ""
    ELSE "\n\nADDITIONAL CONTEXT:\n" \o externalInfo[1].answer
            \o "\n(Source: " \o externalInfo[1].source \o ")"

\* the interpolated parts of the prompt template, in template order
PromptOf(context, externalContext, q) ==
    "Your info:\n" \o context \o externalContext
        \o "\n\nQuestion: \"" \o q \o "\""

Call(by, op, arg, ok) == [by |-> by, op |-> op, arg |-> arg, ok |-> ok]

StreamQuestions ==
    {"", "What is 12 plus 7?", "hello", "Will it rain?",
     "What is your shoe size?", "Tell me about your work"}

BatchQuestions ==
    {"", "What is your name?", "What is your shoe size?",
     "Who are you and what is your email?"}

Questions == StreamQuestions \cup BatchQuestions

ChunkContents == {"", "a", "b"}

\* the pure functions of the question, tabulated over the questions asked
ResolverTable == [q \in Questions |-> getExternalKnowledge(q)]
ReplyTable == [q \in Questions |-> conversationalResponse(q)]
EnhancedQueryTable == [q \in Questions |-> enhancedQuery(q)]
TopicsTable == [q \in Questions |-> extractTopics(q)]

NoContextMessage ==
    "No relevant information found in database. Please try rephrasing your question."

Init ==
    /\ pc = "idle"
    /\ route = "none"
    /\ input = Null
    /\ question = ""
    /\ externalKnowledge = Null
    /\ events = << >>
    /\ closed = FALSE
    /\ escaped = FALSE
    /\ fullAnswer = ""
    /\ results = << >>
    /\ prompt = ""
    /\ cursor = 0
    /\ providerChunks = << >>
    /\ calls = << >>
    /\ store = {}
    /\ provider = "none"
    /\ contextParts = << >>
    /\ searchQuery = ""
    /\ response = Null
    /\ now = 1
    /\ conversations = << >>
    /\ subs = << >>
    /\ fetchIncludes = FALSE
    /\ cancelledAt = Null
    /\ self = 1
    /\ parked = Null
    /\ metrics = Null

\* the controller accepts a chunk while the stream is readable: not after
\* controller.close(), not after the consumer cancelled
CanEnqueue == ~closed /\ cancelledAt = Null

\* a catch block that only logs
CatchBlock_LogOnly(message) ==
    /\ pc' = "finished"
    /\ UNCHANGED <<events, closed, escaped>>

\* controller.enqueue throws a TypeError once close() has been called
\* catch (error) { controller.enqueue(error event); controller.close(); }
CatchBlock(message) ==
    IF ~CanEnqueue
    THEN /\ escaped' = TRUE
         /\ pc' = "finished"
         /\ UNCHANGED <<events, closed>>
    ELSE /\ events' = Append(events, Event("error", message))
         /\ closed' = TRUE
         /\ pc' = "finished"
         /\ UNCHANGED escaped

\* externalKnowledge && externalKnowledge.confidence >= 0.9
HighConfidence == 90

\* a short-circuit that forgets the confidence test
shortCircuits_AnyHit(ek) == ek # Null

shortCircuits(ek) == ek # Null /\ ek[1].confidence >= HighConfidence

\* POST up to the construction of the stream: findSimilarConversations
\* queries the index and swallows a failure of that query
StreamPOST(q, ok) ==
    /\ pc = "idle"
    /\ route' = "stream"
    /\ question' = q
    /\ calls' = Append(calls,
            Call("findSimilarConversations", "index.query", q, ok))
    /\ pc' = "start"
    /\ UNCHANGED <<input, externalKnowledge, events, closed, escaped,
                   fullAnswer, results, prompt, cursor, providerChunks,
                   store, searchQuery, response>>
    /\ UNCHANGED <<provider, contextParts>>
    /\ UNCHANGED <<learningVars, cancelledAt>>

\* start(): resolver, short-circuit, canned replies, first status event
StreamStart ==
    /\ pc = "start"
    /\ route = "stream"
    /\ LET ek == ResolverTable[question]
       IN  /\ externalKnowledge' = ek
           /\ calls' = Append(calls,
                Call("start", "getExternalKnowledge", question, TRUE))
           /\ IF shortCircuits(ek)
              THEN /\ events' = Append(events, Event("start", ""))
                   /\ fullAnswer' = ek[1].answer
                   /\ pc' = "extTokens"
              ELSE IF ReplyTable[question] # ""
              THEN /\ pc' = "convTokens"
                   /\ UNCHANGED <<events, fullAnswer>>
              ELSE /\ events' = Append(events,
                            Event("status", "Searching vector database..."))
                   /\ pc' = "query"
                   /\ UNCHANGED fullAnswer
    /\ UNCHANGED <<route, input, question, closed, escaped, results, prompt,
                   cursor, providerChunks, store, searchQuery, response>>
    /\ UNCHANGED <<provider, contextParts>>
    /\ UNCHANGED <<learningVars, cancelledAt>>

\* the earlier version of the endpoint: no resolver, no store
PlainStreamPOST(q) ==
    /\ pc = "idle"
    /\ route' = "plainStream"
    /\ question' = q
    /\ events' = Append(events, Event("status", "Searching vector database..."))
    /\ pc' = "query"
    /\ UNCHANGED <<input, externalKnowledge, closed, escaped, fullAnswer,
                   results, prompt, cursor, providerChunks, calls, store,
                   searchQuery, response>>
    /\ UNCHANGED <<provider, contextParts>>
    /\ UNCHANGED <<learningVars, cancelledAt>>

CannedText ==
    IF pc = "convTokens" THEN ReplyTable[question] ELSE fullAnswer

\* for (const char of response) { enqueue token; await timeout }
StreamCannedToken ==
    /\ pc \in {"extTokens", "convTokens", "fallbackTokens"}
    /\ cursor < Len(CannedText)
    /\ events' = Append(events, Event("token", CharAt(CannedText, cursor + 1)))
    /\ cursor' = cursor + 1
    /\ UNCHANGED <<pc, route, input, question, externalKnowledge, closed,
                   escaped, fullAnswer, results, prompt, providerChunks,
                   calls, store, searchQuery, response>>
    /\ UNCHANGED <<provider, contextParts>>
    /\ UNCHANGED <<learningVars, cancelledAt>>

\* enqueue done; controller.close()
StreamCannedDone ==
    /\ pc \in {"extTokens", "convTokens", "fallbackTokens"}
    /\ cursor = Len(CannedText)
    /\ events' = Append(events, Event("done", ""))
    /\ closed' = TRUE
    /\ pc' = IF pc = "convTokens" THEN "finished" ELSE "cannedStore"
    /\ UNCHANGED <<route, input, question, externalKnowledge, escaped,
                   fullAnswer, results, prompt, cursor, providerChunks,
                   calls, store, searchQuery, response>>
    /\ UNCHANGED <<provider, contextParts>>
    /\ UNCHANGED <<learningVars, cancelledAt>>

\* await storeConversation(...) after the stream was closed; a rejection
\* lands in the catch block of start()
StreamCannedStore(ok, t, r) ==
    /\ pc = "cannedStore"
    /\ calls' = Append(calls,
            Call("storeConversation", "index.upsert", ConversationId(t, r), ok))
    /\ IF ok
       THEN /\ store' = upsert(store,
                    ConversationRecord(ConversationId(t, r), question,
                        fullAnswer, t, join(TopicsTable[question], ", "),
                        externalKnowledge[1].confidence))
            /\ pc' = "finished"
            /\ UNCHANGED <<events, closed, escaped>>
       ELSE /\ CatchBlock("upsert failed")
            /\ UNCHANGED store
    /\ UNCHANGED <<route, input, question, externalKnowledge, fullAnswer,
                   results, prompt, cursor, providerChunks, searchQuery,
                   response>>
    /\ UNCHANGED <<provider, contextParts>>
    /\ UNCHANGED <<learningVars, cancelledAt>>

\* context of the earlier version: every result, text before content
plainPartsOf(res) ==
    LET texts == [i \in 1..Len(res) |->
                    IF res[i].text # "" THEN res[i].text ELSE res[i].content]
        NonEmpty(x) == x # ""
    IN  SelectSeq(texts, NonEmpty)

plainContextOf(res) == join(plainPartsOf(res), "\n\n")

PlainQueryDone(res) ==
    /\ results' = res
    /\ contextParts' = plainPartsOf(res)
    /\ IF trim(plainContextOf(res)) = ""
       THEN /\ events' = Append(Append(events,
                    Event("status", "Generating response...")),
                    Event("error", "No relevant information found in database"))
            /\ closed' = TRUE
            /\ pc' = "finished"
            /\ UNCHANGED <<prompt, escaped, fullAnswer, externalKnowledge>>
       ELSE /\ events' = Append(events, Event("status", "Generating response..."))
            /\ prompt' = PromptOf(plainContextOf(res), "", question)
            /\ pc' = "create"
            /\ UNCHANGED <<closed, escaped, fullAnswer, externalKnowledge>>

StreamQueryDone(res) ==
    LET context == contextOf(res)
        externalInfo == ResolverTable[question]
        generating == Append(events, Event("status", "Generating response..."))
    IN  /\ results' = res
        /\ contextParts' = contextPartsOf(res)
        /\ externalKnowledge' = externalInfo
        /\ IF trim(context) = ""
           THEN IF externalInfo # Null
                THEN /\ fullAnswer' = externalInfo[1].answer
                     /\ events' = Append(generating, Event("start", ""))
                     /\ pc' = "fallbackTokens"
                     /\ UNCHANGED <<closed, escaped, prompt>>
                ELSE /\ events' = Append(generating,
                                Event("error", NoContextMessage))
                     /\ closed' = TRUE
                     /\ pc' = "finished"
                     /\ UNCHANGED <<escaped, prompt, fullAnswer>>
           ELSE /\ events' = generating
                /\ prompt' = PromptOf(context,
                                externalContextOf(externalInfo), question)
                /\ pc' = "create"
                /\ UNCHANGED <<closed, escaped, fullAnswer>>

\* await index.query(...) and everything up to the provider call
StreamQuery(ok, res) ==
    /\ pc = "query"
    /\ route \in {"stream", "plainStream"}
    /\ IF ~ok
       THEN /\ calls' = Append(calls, Call("start", "index.query",
                    IF route = "stream" THEN EnhancedQueryTable[question]
                    ELSE question, FALSE))
            /\ CatchBlock("index query failed")
            /\ UNCHANGED <<results, prompt, fullAnswer, externalKnowledge,
                           contextParts>>
       ELSE IF route = "stream"
       THEN /\ calls' = Append(Append(calls,
                    Call("start", "index.query", EnhancedQueryTable[question], TRUE)),
                    Call("start", "getExternalKnowledge", question, TRUE))
            /\ StreamQueryDone(res)
       ELSE /\ calls' = Append(calls,
                    Call("start", "index.query", question, TRUE))
            /\ PlainQueryDone(res)
    /\ UNCHANGED <<route, input, question, cursor, providerChunks, store,
                   searchQuery, response>>
    /\ UNCHANGED provider
    /\ UNCHANGED <<learningVars, cancelledAt>>

\* await groq.chat.completions.create({ stream: true })
StreamCreate(ok) ==
    /\ pc = "create"
    /\ route \in {"stream", "plainStream"}
    /\ calls' = Append(calls, Call("start", "groq.create", prompt, ok))
    /\ IF ok
       THEN /\ pc' = "streaming"
            /\ provider' = "open"
            /\ UNCHANGED <<events, closed, escaped>>
       ELSE /\ CatchBlock("provider request failed")
            /\ UNCHANGED provider
    /\ UNCHANGED <<route, input, question, externalKnowledge, fullAnswer,
                   results, prompt, cursor, providerChunks, store,
                   searchQuery, response>>
    /\ UNCHANGED contextParts
    /\ UNCHANGED <<learningVars, cancelledAt>>

\* an iteration that sends the accumulated answer instead of the delta
StreamChunk_Accumulated(content) ==
    /\ pc = "streaming"
    /\ Len(providerChunks) < MaxChunks
    /\ providerChunks' = Append(providerChunks, content)
    /\ IF content = ""
       THEN UNCHANGED <<fullAnswer, events, pc, closed, escaped, provider>>
       ELSE IF CanEnqueue
       THEN /\ fullAnswer' = fullAnswer \o content
            /\ events' = Append(events, Event("token", fullAnswer \o content))
            /\ UNCHANGED <<pc, closed, escaped, provider>>
       ELSE /\ fullAnswer' = fullAnswer \o content
            /\ provider' = "released"
            /\ CatchBlock("enqueue failed")
    /\ UNCHANGED <<route, input, question, externalKnowledge, results,
                   prompt, cursor, calls, store, searchQuery, response>>
    /\ UNCHANGED contextParts
    /\ UNCHANGED <<learningVars, cancelledAt>>

\* one iteration of for await (const chunk of completion)
StreamChunk(content) ==
    /\ pc = "streaming"
    /\ Len(providerChunks) < MaxChunks
    /\ providerChunks' = Append(providerChunks, content)
    /\ IF content = ""
       THEN UNCHANGED <<fullAnswer, events, pc, closed, escaped, provider>>
       ELSE /\ fullAnswer' = IF route = "stream" THEN fullAnswer \o content
                             ELSE fullAnswer
            /\ IF CanEnqueue
               THEN /\ events' = Append(events, Event("token", content))
                    /\ UNCHANGED <<pc, closed, escaped, provider>>
               ELSE /\ provider' = "released"
                    /\ CatchBlock("enqueue failed")
    /\ UNCHANGED <<route, input, question, externalKnowledge, results,
                   prompt, cursor, calls, store, searchQuery, response>>
    /\ UNCHANGED contextParts
    /\ UNCHANGED <<learningVars, cancelledAt>>

\* the provider stream throws while it is being iterated
StreamProviderError ==
    /\ pc = "streaming"
    /\ provider' = "failed"
    /\ CatchBlock("provider stream failed")
    /\ UNCHANGED <<route, input, question, externalKnowledge, fullAnswer,
                   results, prompt, cursor, providerChunks, calls, store,
                   searchQuery, response>>
    /\ UNCHANGED contextParts
    /\ UNCHANGED <<learningVars, cancelledAt>>

\* the provider stream ends
StreamEnd ==
    /\ pc = "streaming"
    /\ provider' = "ended"
    /\ IF route = "stream"
       THEN /\ pc' = "store"
            /\ UNCHANGED <<events, closed, escaped>>
       ELSE IF CanEnqueue
       THEN /\ events' = Append(events, Event("done", ""))
            /\ closed' = TRUE
            /\ pc' = "finished"
            /\ UNCHANGED escaped
       ELSE CatchBlock("enqueue failed")
    /\ UNCHANGED <<route, input, question, externalKnowledge,
                   fullAnswer, results, prompt, cursor, providerChunks,
                   calls, store, searchQuery, response>>
    /\ UNCHANGED contextParts
    /\ UNCHANGED <<learningVars, cancelledAt>>

\* await storeConversation(...).catch(() => null); enqueue done; close
StreamStore(ok, t, r) ==
    /\ pc = "store"
    /\ calls' = Append(calls,
            Call("storeConversation", "index.upsert", ConversationId(t, r), ok))
    /\ store' = IF ok
                THEN upsert(store,
                        ConversationRecord(ConversationId(t, r), question,
                            fullAnswer, t, TopicsTable[question][1],
                            IF Len(results) > 0 THEN results[1].score ELSE 0))
                ELSE store
    /\ IF CanEnqueue
       THEN /\ events' = Append(events,
                    Event("done", IF ok THEN ConversationId(t, r) ELSE ""))
            /\ closed' = TRUE
            /\ pc' = "finished"
            /\ UNCHANGED escaped
       ELSE CatchBlock("enqueue failed")
    /\ UNCHANGED <<route, input, question, externalKnowledge,
                   fullAnswer, results, prompt, cursor, providerChunks,
                   searchQuery, response>>
    /\ UNCHANGED <<provider, contextParts>>
    /\ UNCHANGED <<learningVars, cancelledAt>>

(***************************************************************************)
(* Batch query paths.                                                      *)
(***************************************************************************)
\* what a provider completion can hold: a text, or nothing
Completions == {"Generated text.", ""}

NoResultsAnswer ==
    "I don't have specific information about that topic. Could you try rephrasing your question or asking about my experience, skills, or projects?"
NoContentAnswer ==
    "I found some information but couldn't extract the details. Please try a different question."
ErrorAnswer ==
    "I encountered an error processing your question. Please try again or rephrase your question."
EmptyCompletionAnswer ==
    "I apologize, but I couldn't generate a response. Please try rephrasing your question."

RAGResponse(answer, sources, success, error) ==
    Some([answer |-> answer, sources |-> sources, success |-> success,
          error |-> error])

HasContent(r) == r.content # ""

\* results.filter(content).map({title, content, score})
sourcesOf(res) ==
    LET kept == SelectSeq(res, HasContent)
    IN  [i \in 1..Len(kept) |->
            [title |-> IF kept[i].title = "" THEN "Information" ELSE kept[i].title,
             content |-> kept[i].content,
             score |-> kept[i].score]]

topDocs(res) ==
    LET src == sourcesOf(res)
    IN  [i \in 1..Len(src) |-> src[i].title \o ": " \o src[i].content]

simpleQuestions == <<
    <<{"what is your name", "what is my name", "what is the name"},
      "name identity professional name full name">>,
    <<{"who are you"}, "name identity professional background summary">>,
    <<{"tell me about yourself"}, "professional summary background experience">>,
    <<{"introduce yourself"}, "introduction name title professional summary">>,
    <<{"linkedin", "email", "phone", "contact", "github", "portfolio"},
      "contact information email phone linkedin github portfolio">>,
    <<{"salary", "compensation", "pay"},
      "salary compensation expectations current salary">>
    >>

\* a table walk that keeps the last pattern that matches
simpleQuestionOf_Last(originalQuery) ==
    LET I == {k \in 1..Len(simpleQuestions) :
                \E w \in simpleQuestions[k][1] :
                    includes(toLowerCase(originalQuery), w)}
    IN  IF I = {} THEN 0 ELSE CHOOSE k \in I : \A j \in I : j <= k

\* index of the first shortcut pattern that matches, 0 when none does
simpleQuestionOf(originalQuery) ==
    LET I == {k \in 1..Len(simpleQuestions) :
                \E w \in simpleQuestions[k][1] :
                    includes(toLowerCase(originalQuery), w)}
    IN  IF I = {} THEN 0 ELSE Min(I)

\* formatForInterview's context: every result's content, empty ones dropped
formatContextOf(res) ==
    LET contents == [i \in 1..Len(res) |-> res[i].content]
        NonEmpty(x) == x # ""
    IN  join(SelectSeq(contents, NonEmpty), "\n\n")

Return(resp) ==
    /\ response' = resp
    /\ pc' = "returned"

\* a catch block that lets the error leave the function
RAGCatch_Rethrow(message) ==
    /\ pc' = "threw"
    /\ UNCHANGED response

\* catch (error) { return { answer: <apology>, sources: [], success: false } }
RAGCatch(message) ==
    Return(RAGResponse(ErrorAnswer, << >>, FALSE, message))

\* performRAGQuery up to the await of queryVectors
performRAGQuery(q) ==
    /\ pc = "idle"
    /\ route' = "basic"
    /\ question' = q
    /\ calls' = Append(calls, Call("caller", "performRAGQuery", q, TRUE))
    /\ IF trim(q) = ""
       THEN Return(RAGResponse("Please provide a question.", << >>, FALSE,
                               "Empty question"))
       ELSE /\ pc' = "ragQuery"
            /\ UNCHANGED response
    /\ UNCHANGED <<input, externalKnowledge, events, closed, escaped,
                   fullAnswer, results, prompt, cursor, providerChunks,
                   store, searchQuery>>
    /\ UNCHANGED <<provider, contextParts>>
    /\ UNCHANGED <<learningVars, cancelledAt>>

\* queryVectors(question, 3) settles; the steps up to generateResponse
RAGQueryVectors(ok, res) ==
    /\ pc = "ragQuery"
    /\ calls' = Append(calls, Call("queryVectors", "index.query", question, ok))
    /\ IF ~ok
       THEN /\ RAGCatch("Vector query failed")
            /\ UNCHANGED <<results, prompt>>
       ELSE /\ results' = res
            /\ IF Len(res) = 0
               THEN /\ Return(RAGResponse(NoResultsAnswer, << >>, TRUE, ""))
                    /\ UNCHANGED prompt
               ELSE IF Len(topDocs(res)) = 0
               THEN /\ Return(RAGResponse(NoContentAnswer, << >>, TRUE, ""))
                    /\ UNCHANGED prompt
               ELSE /\ prompt' = "Your Information:\n" \o join(topDocs(res), "\n\n")
                                    \o "\n\nQuestion: " \o question
                    /\ pc' = "ragGenerate"
                    /\ UNCHANGED response
    /\ UNCHANGED <<route, input, question, externalKnowledge, events, closed,
                   escaped, fullAnswer, cursor, providerChunks, store,
                   searchQuery>>
    /\ UNCHANGED <<provider, contextParts>>
    /\ UNCHANGED <<learningVars, cancelledAt>>

\* generateResponse(prompt) settles
RAGGenerate(ok, text) ==
    /\ pc = "ragGenerate"
    /\ calls' = Append(calls, Call("generateResponse", "groq.create", prompt, ok))
    /\ IF ~ok
       THEN RAGCatch("AI generation failed")
       ELSE Return(RAGResponse(
                IF trim(text) = "" THEN EmptyCompletionAnswer ELSE trim(text),
                sourcesOf(results), TRUE, ""))
    /\ UNCHANGED <<route, input, question, externalKnowledge, events, closed,
                   escaped, fullAnswer, results, prompt, cursor,
                   providerChunks, store, searchQuery>>
    /\ UNCHANGED <<provider, contextParts>>
    /\ UNCHANGED <<learningVars, cancelledAt>>

\* performEnhancedRAGQuery up to its first await; enhanceQuery answers a
\* shortcut question without calling the provider
performEnhancedRAGQuery(q) ==
    /\ pc = "idle"
    /\ route' = "enhanced"
    /\ question' = q
    /\ IF trim(q) = ""
       THEN /\ Return(RAGResponse("Please provide a question.", << >>, FALSE,
                                  "Empty question"))
            /\ UNCHANGED searchQuery
       ELSE IF simpleQuestionOf(q) # 0
       THEN /\ searchQuery' = simpleQuestions[simpleQuestionOf(q)][2]
            /\ pc' = "enhancedQuery"
            /\ UNCHANGED response
       ELSE /\ pc' = "enhance"
            /\ UNCHANGED <<response, searchQuery>>
    /\ UNCHANGED <<input, externalKnowledge, events, closed, escaped,
                   fullAnswer, results, prompt, cursor, providerChunks,
                   calls, store>>
    /\ UNCHANGED <<provider, contextParts>>
    /\ UNCHANGED <<learningVars, cancelledAt>>

\* an enhanceQuery whose catch block lets the provider's error through
EnhanceQuery_Rethrow(ok, text) ==
    /\ pc = "enhance"
    /\ calls' = Append(calls,
            Call("enhanceQuery", "groq.create",
                 "Original question: \"" \o question \o "\"", ok))
    /\ searchQuery' = IF ok /\ trim(text) # "" THEN trim(text) ELSE searchQuery
    /\ pc' = IF ok THEN "enhancedQuery" ELSE "threw"
    /\ UNCHANGED <<route, input, question, externalKnowledge, events, closed,
                   escaped, fullAnswer, results, prompt, cursor,
                   providerChunks, store, response>>
    /\ UNCHANGED <<provider, contextParts>>
    /\ UNCHANGED <<learningVars, cancelledAt>>

\* enhanceQuery: the provider call settles
EnhanceQuery(ok, text) ==
    /\ pc = "enhance"
    /\ calls' = Append(calls,
            Call("enhanceQuery", "groq.create",
                 "Original question: \"" \o question \o "\"", ok))
    /\ searchQuery' = IF ok /\ trim(text) # "" THEN trim(text) ELSE question
    /\ pc' = "enhancedQuery"
    /\ UNCHANGED <<route, input, question, externalKnowledge, events, closed,
                   escaped, fullAnswer, results, prompt, cursor,
                   providerChunks, store, response>>
    /\ UNCHANGED <<provider, contextParts>>
    /\ UNCHANGED <<learningVars, cancelledAt>>

\* queryVectors(enhancedQuery, 5) settles; a failure is caught and answered
\* by performRAGQuery(question)
EnhancedQueryVectors(ok, res) ==
    /\ pc = "enhancedQuery"
    /\ IF ~ok
       THEN /\ calls' = Append(Append(calls,
                    Call("queryVectors", "index.query", searchQuery, FALSE)),
                    Call("performEnhancedRAGQuery", "performRAGQuery",
                         question, TRUE))
            /\ pc' = "ragQuery"
            /\ UNCHANGED <<results, prompt, response>>
       ELSE /\ calls' = Append(calls,
                    Call("queryVectors", "index.query", searchQuery, TRUE))
            /\ results' = res
            /\ IF Len(res) = 0
               THEN /\ Return(RAGResponse(NoResultsAnswer, << >>, TRUE, ""))
                    /\ UNCHANGED prompt
               ELSE IF Len(sourcesOf(res)) = 0
               THEN /\ Return(RAGResponse(NoContentAnswer, << >>, TRUE, ""))
                    /\ UNCHANGED prompt
               ELSE /\ prompt' = "Question: \"" \o question
                                    \o "\"\n\nProfessional Background Data:\n"
                                    \o formatContextOf(res)
                    /\ pc' = "format"
                    /\ UNCHANGED response
    /\ UNCHANGED <<route, input, question, externalKnowledge, events, closed,
                   escaped, fullAnswer, cursor, providerChunks, store,
                   searchQuery>>
    /\ UNCHANGED <<provider, contextParts>>
    /\ UNCHANGED <<learningVars, cancelledAt>>

\* formatForInterview: the provider call settles; a failure is caught inside
\* and the raw context is returned as the answer
formatForInterview(ok, text) ==
    /\ pc = "format"
    /\ calls' = Append(calls,
            Call("formatForInterview", "groq.create", prompt, ok))
    /\ Return(RAGResponse(
            IF ok /\ trim(text) # "" THEN trim(text)
            ELSE formatContextOf(results),
            sourcesOf(results), TRUE, ""))
    /\ UNCHANGED <<route, input, question, externalKnowledge, events, closed,
                   escaped, fullAnswer, results, prompt, cursor,
                   providerChunks, store, searchQuery>>
    /\ UNCHANGED <<provider, contextParts>>
    /\ UNCHANGED <<learningVars, cancelledAt>>

BatchStep ==
    \/ /\ pc = "ragQuery"
       /\ \E ok \in BOOLEAN, res \in ResultLists : RAGQueryVectors(ok, res)
    \/ \E ok \in BOOLEAN, text \in Completions : RAGGenerate(ok, text)
    \/ \E ok \in BOOLEAN, text \in Completions : EnhanceQuery(ok, text)
    \/ /\ pc = "enhancedQuery"
       /\ \E ok \in BOOLEAN, res \in ResultLists : EnhancedQueryVectors(ok, res)
    \/ \E ok \in BOOLEAN, text \in Completions : formatForInterview(ok, text)

StreamStep ==
    \/ StreamStart
    \/ StreamCannedToken
    \/ StreamCannedDone
    \/ \E ok \in BOOLEAN, t \in Times, r \in Suffixes : StreamCannedStore(ok, t, r)
    \/ /\ pc = "query"
       /\ \E ok \in BOOLEAN, res \in ResultLists : StreamQuery(ok, res)
    \/ \E ok \in BOOLEAN : StreamCreate(ok)
    \/ \E content \in ChunkContents : StreamChunk(content)
    \/ StreamProviderError
    \/ StreamEnd
    \/ \E ok \in BOOLEAN, t \in Times, r \in Suffixes : StreamStore(ok, t, r)

\* totalConfidence over the results of the metrics query
RECURSIVE totalConfidence(_)
totalConfidence(rs) ==
    IF rs = {} THEN 0
    ELSE (CHOOSE r \in rs : TRUE).confidence
            + totalConfidence(rs \ {CHOOSE r \in rs : TRUE})

\* what getLearningMetrics computes from the conversation records rs; the
\* mean is in hundredths, rounded down
LearningMetrics(rs) ==
    [totalConversations |-> Cardinality(rs),
     positiveRatings |-> Cardinality({r \in rs : r.feedback = Some("positive")}),
     negativeRatings |-> Cardinality({r \in rs : r.feedback = Some("negative")}),
     popularTopics |->
        [c \in {(IF r.category = "" THEN "general" ELSE r.category) : r \in rs}
            |-> Cardinality({r \in rs :
                    (IF r.category = "" THEN "general" ELSE r.category) = c})],
     averageConfidence |->
        IF rs = {} THEN 0 ELSE totalConfidence(rs) \div Cardinality(rs)]

\* getLearningMetrics, read once the streaming request has finished: one
\* index query for the records of type conversation, a metadata walk, and a
\* catch block that answers with zeros
getLearningMetrics(ok) ==
    /\ route = "stream"
    /\ pc = "finished"
    /\ metrics = Null
    /\ metrics' = Some(LearningMetrics(
            IF ok THEN {r \in store : r.type = "conversation"} ELSE {}))
    /\ UNCHANGED <<queryVars, store, cancelledAt>>
    /\ UNCHANGED <<now, conversations, subs, fetchIncludes, self, parked>>

Next ==
    \/ \E q \in StreamQuestions, ok \in BOOLEAN : StreamPOST(q, ok)
    \/ \E q \in StreamQuestions : PlainStreamPOST(q)
    \/ StreamStep
    \/ \E q \in BatchQuestions : performRAGQuery(q)
    \/ \E q \in BatchQuestions : performEnhancedRAGQuery(q)
    \/ BatchStep
    \/ \E ok \in BOOLEAN : getLearningMetrics(ok)

Spec == Init /\ [][Next]_vars

\* the streaming endpoint alone
StreamNext ==
    \/ \E q \in StreamQuestions, ok \in BOOLEAN : StreamPOST(q, ok)
    \/ \E q \in StreamQuestions : PlainStreamPOST(q)
    \/ StreamStep

\* the runtime resumes the handler whenever the awaited call has settled
FairSpec == Init /\ [][StreamNext]_vars /\ WF_vars(StreamStep)

\* the client goes away while tokens are streamed: the consumer cancels
\* the ReadableStream, which has no cancel() callback to tell the handler
ClientCancel ==
    /\ pc = "streaming"
    /\ CanEnqueue
    /\ cancelledAt' = Some(Len(providerChunks))
    /\ UNCHANGED <<queryVars, store, learningVars>>

CancelNext ==
    \/ Next
    \/ ClientCancel

CancelSpec == Init /\ [][CancelNext]_vars

(***************************************************************************)
(* The resolver on its own, over arithmetic questions.                     *)
(***************************************************************************)
MathLeads == {"What is ", "what is ", "Calculate ", ""}
Operands == {0, 6, 7, 12}
OperatorTokens == {"+", "-", "*", "/", "plus", "minus", "times", "divided by"}
Gaps == {" ", ""}
Tails == {"?", ""}

MathInputs ==
    [lead : MathLeads, a : Operands, op : OperatorTokens, b : Operands,
     gap : Gaps, tail : Tails]

QuestionOf(in) ==
    in.lead \o ToString(in.a) \o in.gap \o in.op \o in.gap \o ToString(in.b)
        \o in.tail

\* questions for the handlers other than the calculator
KnowledgeQuestions ==
    {"Where are you located now?", "What is your location?",
     "What does API stand for?", "Define css for hot days",
     "What is the weather forecast?", "Will it rain?", "hello"}

ResolverInit ==
    /\ \/ \E in \in MathInputs :
             /\ input = Some(in)
             /\ question = QuestionOf(in)
       \/ /\ input = Null
          /\ question \in KnowledgeQuestions
    /\ pc = "resolve"
    /\ route = "resolver"
    /\ externalKnowledge = Null
    /\ events = << >>
    /\ closed = FALSE
    /\ escaped = FALSE
    /\ fullAnswer = ""
    /\ results = << >>
    /\ prompt = ""
    /\ cursor = 0
    /\ providerChunks = << >>
    /\ calls = << >>
    /\ store = {}
    /\ provider = "none"
    /\ contextParts = << >>
    /\ searchQuery = ""
    /\ response = Null
    /\ now = 1
    /\ conversations = << >>
    /\ subs = << >>
    /\ fetchIncludes = FALSE
    /\ cancelledAt = Null
    /\ self = 1
    /\ parked = Null
    /\ metrics = Null

Resolve ==
    /\ pc = "resolve"
    /\ externalKnowledge' = getExternalKnowledge(question)
    /\ calls' = Append(calls,
            Call("caller", "getExternalKnowledge", question, TRUE))
    /\ pc' = "resolved"
    /\ UNCHANGED <<route, input, question, events, closed, escaped,
                   fullAnswer, results, prompt, cursor, providerChunks,
                   store, provider, contextParts, searchQuery, response>>
    /\ UNCHANGED <<learningVars, cancelledAt>>

ResolverNext == Resolve

ResolverSpec == ResolverInit /\ [][ResolverNext]_vars

(***************************************************************************)
(* Conversation store and feedback loop: storeConversation, the feedback   *)
(* endpoint and the reload endpoint, all on one shared index.              *)
(***************************************************************************)
MaxNow == 2
MaxConversations == 1
MaxSubmissions == 2

\* { ...r, ...o }
Merge(r, o) ==
    [k \in DOMAIN r \cup DOMAIN o |-> IF k \in DOMAIN o THEN o[k] ELSE r[k]]

\* the properties of r among keys that are not undefined
Pick(r, keys) == [k \in DOMAIN r \cap keys |-> r[k]]

\* Math.random().toString(36).substring(7); the draws of different calls
\* are taken to differ
LearningSuffixes == <<"k3x9q", "p7m2d", "z8w4c">>

LearningQuestions == {"What is your name?"}

Feedbacks == {"positive", "negative", "neutral"}

UnknownId == "conversation_0_gone"

\* weight: 1.5
ReinforcementWeight == 150

StoredConfidence == 80

\* an improvement id drawn from the namespace of the reinforcement ids
ImprovementId_Untyped(t) == "reinforcement_" \o ToString(t)

ImprovementId(t) == "improvement_" \o ToString(t)

ReinforcementId(t) == "reinforcement_" \o ToString(t)

\* the chunk records the reload endpoint upserts
ProfileChunks ==
    {[id |-> "chunk_skills",
      data |-> "Technical Skills: I build web apps with React and Next.js",
      title |-> "Technical Skills",
      type |-> "skills",
      content |-> "I build web apps with React and Next.js",
      category |-> "",
      tags |-> << >>]}

\* index.fetch([id]) without includeMetadata / includeData: one entry per
\* id, null for an id the index does not hold; whether an entry carries
\* metadata and data when they were not asked for is up to the index
\* service
Fetched(index, id, included) ==
    IF \E r \in index : r.id = id
    THEN LET r == CHOOSE x \in index : x.id = id
         IN  Some([vector |-> IF included THEN r ELSE [id |-> r.id],
                   hasMetadata |-> included])
    ELSE Null

\* the index embeds the data of an entry: an upsert whose data is
\* undefined (and that carries no vector) is rejected
Indexable(record) == "data" \in DOMAIN record

IdleSub ==
    [pc |-> "idle", conversationId |-> "", feedback |-> "", conv |-> Null,
     status |-> 0, wrote |-> Null]

\* the response leaves and the locals of the call are gone; a success
\* response carries conversationId and feedback, an error response does not
Respond(s, status) ==
    subs' = [subs EXCEPT ![s] =
                IF status = 200
                THEN [@ EXCEPT !.pc = "responded", !.status = 200,
                               !.conv = Null]
                ELSE [IdleSub EXCEPT !.pc = "responded", !.status = status]]

LearningInit ==
    /\ pc = "serving"
    /\ route = "learning"
    /\ input = Null
    /\ question = ""
    /\ externalKnowledge = Null
    /\ events = << >>
    /\ closed = FALSE
    /\ escaped = FALSE
    /\ fullAnswer = ""
    /\ results = << >>
    /\ prompt = ""
    /\ cursor = 0
    /\ providerChunks = << >>
    /\ calls = << >>
    /\ store = ProfileChunks
    /\ provider = "none"
    /\ contextParts = << >>
    /\ searchQuery = ""
    /\ response = Null
    /\ now = 1
    /\ conversations = << >>
    /\ subs = [s \in 1..MaxSubmissions |-> IdleSub]
    /\ fetchIncludes \in BOOLEAN
    /\ cancelledAt = Null
    /\ self = 1
    /\ parked = Null
    /\ metrics = Null

\* a millisecond passes. Date.now() is only ever compared with earlier
\* readings of it, so a millisecond in which nothing read the clock is not
\* told apart from the next one: the clock moves on once the current
\* reading has been written somewhere
Tick ==
    /\ now < MaxNow
    /\ \/ \E i \in 1..Len(conversations) : conversations[i].timestamp = now
       \/ \E r \in store :
             \/ "timestamp" \in DOMAIN r /\ r.timestamp = now
             \/ "feedbackTimestamp" \in DOMAIN r /\ r.feedbackTimestamp = now
    /\ now' = now + 1
    /\ UNCHANGED <<queryVars, store, conversations, subs, fetchIncludes, self,
                   parked, metrics, cancelledAt>>

\* storeConversation({question, answer, timestamp: new Date(), ...})
storeConversation(q, ok) ==
    /\ Len(conversations) < MaxConversations
    /\ LET id == ConversationId(now, LearningSuffixes[Len(conversations) + 1])
           record == ConversationRecord(id, q, "Generated text.", now,
                        TopicsTable[q][1], StoredConfidence)
       IN  IF ok
           THEN /\ store' = upsert(store, record)
                /\ conversations' = Append(conversations,
                        [id |-> id, question |-> q,
                         answer |-> "Generated text.", timestamp |-> now])
           ELSE UNCHANGED <<store, conversations>>
    /\ UNCHANGED <<queryVars, now, subs, fetchIncludes, self, parked, metrics,
                   cancelledAt>>

\* POST /api/learning/feedback up to the first await; the submissions are
\* numbered in the order they arrive
FeedbackPOST(s, id, feedback) ==
    /\ subs[s].pc = "idle"
    /\ \A o \in 1..(s - 1) : subs[o].pc # "idle"
    /\ IF id = "" \/ feedback \notin {"positive", "negative"}
       THEN Respond(s, 400)
       ELSE subs' = [subs EXCEPT ![s].pc = "fetch",
                                 ![s].conversationId = id,
                                 ![s].feedback = feedback]
    /\ UNCHANGED <<queryVars, store, now, conversations, fetchIncludes,
                   self, parked, metrics, cancelledAt>>

\* a fetch that takes an id the index does not hold for nothing to do
UpdateFetch_MissingIgnored(s, ok) ==
    /\ subs[s].pc = "fetch"
    /\ LET conv == Fetched(store, subs[s].conversationId, fetchIncludes)
       IN  IF ~ok THEN Respond(s, 500)
           ELSE IF conv = Null THEN Respond(s, 200)
           ELSE subs' = [subs EXCEPT ![s].pc = "upsert", ![s].conv = conv]
    /\ UNCHANGED <<queryVars, store, now, conversations, fetchIncludes,
                   self, parked, metrics, cancelledAt>>

\* updateConversationFeedback: const result = await index.fetch([id])
UpdateFetch(s, ok) ==
    /\ subs[s].pc = "fetch"
    /\ LET conv == Fetched(store, subs[s].conversationId, fetchIncludes)
       IN  IF ~ok \/ conv = Null
           THEN Respond(s, 500)
           ELSE subs' = [subs EXCEPT ![s].pc = "upsert", ![s].conv = conv]
    /\ UNCHANGED <<queryVars, store, now, conversations, fetchIncludes,
                   self, parked, metrics, cancelledAt>>

\* an update that writes the feedback without spreading conv.metadata
UpdateUpsert_MetadataReplaced(s, ok) ==
    /\ subs[s].pc = "upsert"
    /\ LET conv == subs[s].conv[1]
           record == Merge(Pick(conv.vector, {"data"}),
                        [id |-> subs[s].conversationId,
                         feedback |-> Some(subs[s].feedback),
                         feedbackTimestamp |-> now])
       IN  IF ~ok \/ ~Indexable(record)
           THEN /\ Respond(s, 500)
                /\ UNCHANGED store
           ELSE /\ store' = upsert(store, record)
                /\ IF subs[s].feedback = "negative"
                   THEN IF conv.hasMetadata
                        THEN subs' = [subs EXCEPT ![s].pc = "improve"]
                        ELSE Respond(s, 200)
                   ELSE subs' = [subs EXCEPT ![s].pc = "reinforceFetch",
                                             ![s].conv = Null]
    /\ UNCHANGED <<queryVars, now, conversations, fetchIncludes, self, parked,
                   metrics, cancelledAt>>

\* updateConversationFeedback: await index.upsert({ id, data, metadata })
\* and what follows up to the next await
UpdateUpsert(s, ok) ==
    /\ subs[s].pc = "upsert"
    /\ LET conv == subs[s].conv[1]
           record == Merge(conv.vector,
                        [id |-> subs[s].conversationId,
                         feedback |-> Some(subs[s].feedback),
                         feedbackTimestamp |-> now])
       IN  IF ~ok \/ ~Indexable(record)
           THEN /\ Respond(s, 500)
                /\ UNCHANGED store
           ELSE /\ store' = upsert(store, record)
                /\ IF subs[s].feedback = "negative"
                   THEN IF conv.hasMetadata
                        THEN subs' = [subs EXCEPT ![s].pc = "improve"]
                        ELSE Respond(s, 200)
                   ELSE subs' = [subs EXCEPT ![s].pc = "reinforceFetch",
                                             ![s].conv = Null]
    /\ UNCHANGED <<queryVars, now, conversations, fetchIncludes, self, parked,
                   metrics, cancelledAt>>

\* markForImprovement: await index.upsert(...); its catch only logs
markForImprovement(s, ok) ==
    /\ subs[s].pc = "improve"
    /\ LET metadata == subs[s].conv[1].vector
           improvementId == ImprovementId(now)
       IN  IF ok
           THEN /\ store' = upsert(store,
                     Merge(Pick(metadata, {"question", "answer"}),
                        [id |-> improvementId,
                         data |-> "Needs improvement: " \o
                            (IF "question" \in DOMAIN metadata
                             THEN metadata.question ELSE "undefined"),
                         type |-> "improvement_needed",
                         originalConversationId |-> subs[s].conversationId,
                         timestamp |-> now,
                         status |-> "pending"]))
                /\ subs' = [subs EXCEPT ![s].pc = "responded",
                                ![s].status = 200,
                                ![s].conv = Null,
                                ![s].wrote = Some(improvementId)]
           ELSE /\ Respond(s, 200)
                /\ UNCHANGED store
    /\ UNCHANGED <<queryVars, now, conversations, fetchIncludes, self, parked,
                   metrics, cancelledAt>>

\* reinforcePositivePatterns: const result = await index.fetch([id]);
\* reading conv.data of a null entry throws into the catch, which only logs
ReinforceFetch(s, ok) ==
    /\ subs[s].pc = "reinforceFetch"
    /\ LET conv == Fetched(store, subs[s].conversationId, fetchIncludes)
       IN  IF ~ok \/ conv = Null
           THEN Respond(s, 200)
           ELSE subs' = [subs EXCEPT ![s].pc = "reinforceUpsert",
                                     ![s].conv = conv]
    /\ UNCHANGED <<queryVars, store, now, conversations, fetchIncludes,
                   self, parked, metrics, cancelledAt>>

\* reinforcePositivePatterns: await index.upsert(...); its catch only logs
ReinforceUpsert(s, ok) ==
    /\ subs[s].pc = "reinforceUpsert"
    /\ LET conv == subs[s].conv[1].vector
           reinforcementId == ReinforcementId(now)
       IN  IF ok /\ Indexable(conv)
           THEN /\ store' = upsert(store,
                     Merge(Pick(conv, {"data", "question", "answer", "category"}),
                        [id |-> reinforcementId,
                         type |-> "reinforcement",
                         originalId |-> subs[s].conversationId,
                         timestamp |-> now,
                         weight |-> ReinforcementWeight]))
                /\ subs' = [subs EXCEPT ![s].pc = "responded",
                                ![s].status = 200,
                                ![s].conv = Null,
                                ![s].wrote = Some(reinforcementId)]
           ELSE /\ Respond(s, 200)
                /\ UNCHANGED store
    /\ UNCHANGED <<queryVars, now, conversations, fetchIncludes, self, parked,
                   metrics, cancelledAt>>

\* what the reload operations answer
ReloadResponse(success, count) ==
    IF success THEN Some([success |-> TRUE, vectorCount |-> count])
    ELSE Some([success |-> FALSE])

\* DELETE of the reload endpoint: await vectorIndex.reset(), then
\* await vectorIndex.upsert(vectors); a rejection of either lands in the
\* catch block, which answers 500 with success false
DELETE(okReset, okUpsert) ==
    /\ store' = IF ~okReset THEN store
                ELSE IF okUpsert THEN ProfileChunks ELSE {}
    /\ response' = ReloadResponse(okReset /\ okUpsert,
                                  Cardinality(ProfileChunks))
    /\ UNCHANGED <<pc, route, input, question, externalKnowledge, events,
                   closed, escaped, fullAnswer, results, prompt, cursor,
                   providerChunks, calls, provider, contextParts,
                   searchQuery>>
    /\ UNCHANGED <<now, conversations, subs, fetchIncludes, self, parked,
                   metrics, cancelledAt>>

\* loadProfileData, the JSON-RPC method "reload": an index that holds any
\* vector counts as loaded and is left as it is; an empty one receives
\* the chunks of the profile file
loadProfileData(okInfo, okUpsert) ==
    /\ IF ~okInfo
       THEN /\ response' = ReloadResponse(FALSE, 0)
            /\ UNCHANGED store
       ELSE IF Cardinality(store) > 0
       THEN /\ response' = ReloadResponse(TRUE, Cardinality(store))
            /\ UNCHANGED store
       ELSE IF okUpsert
       THEN /\ store' = ProfileChunks
            /\ response' = ReloadResponse(TRUE, Cardinality(ProfileChunks))
       ELSE /\ response' = ReloadResponse(FALSE, 0)
            /\ UNCHANGED store
    /\ UNCHANGED <<pc, route, input, question, externalKnowledge, events,
                   closed, escaped, fullAnswer, results, prompt, cursor,
                   providerChunks, calls, provider, contextParts,
                   searchQuery>>
    /\ UNCHANGED <<now, conversations, subs, fetchIncludes, self, parked,
                   metrics, cancelledAt>>

Submissions == 1..MaxSubmissions

KnownIds == {conversations[i].id : i \in 1..Len(conversations)}

\* storing conversations and serving feedback
FeedbackNext ==
    \/ Tick
    \/ \E q \in LearningQuestions, ok \in BOOLEAN : storeConversation(q, ok)
    \/ \E s \in Submissions, id \in KnownIds \cup {UnknownId, ""},
          feedback \in Feedbacks : FeedbackPOST(s, id, feedback)
    \/ \E s \in Submissions, ok \in BOOLEAN : UpdateFetch(s, ok)
    \/ \E s \in Submissions, ok \in BOOLEAN : UpdateUpsert(s, ok)
    \/ \E s \in Submissions, ok \in BOOLEAN : markForImprovement(s, ok)
    \/ \E s \in Submissions, ok \in BOOLEAN : ReinforceFetch(s, ok)
    \/ \E s \in Submissions, ok \in BOOLEAN : ReinforceUpsert(s, ok)

FeedbackSpec == LearningInit /\ [][FeedbackNext]_vars

\* the same with the reload endpoint
LearningNext ==
    \/ FeedbackNext
    \/ \E okReset \in BOOLEAN, okUpsert \in BOOLEAN : DELETE(okReset, okUpsert)
    \/ \E okInfo \in BOOLEAN, okUpsert \in BOOLEAN :
          loadProfileData(okInfo, okUpsert)

LearningSpec == LearningInit /\ [][LearningNext]_vars

(***************************************************************************)
(* Two streaming requests in one process.  The handler's variables are     *)
(* locals of POST and of start(): each request has its own, and the        *)
(* event loop runs one request at a time, passing to another one only      *)
(* where the running one awaits.  Only the index is shared.                *)
(***************************************************************************)
ConcurrentQuestions == {"What is 12 plus 7?", "Tell me about your work"}

ConcurrentResults ==
    {<< >>,
     <<Match("chunk_skills", 80, "Technical Skills",
             "I build web apps with React and Next.js", "")>>}

\* the delta contents the provider sends for a request
ChunkOf(request) == IF request = 1 THEN "a" ELSE "b"

\* the locals of the running request
Locals ==
    [pc |-> pc, route |-> route, question |-> question,
     externalKnowledge |-> externalKnowledge, events |-> events,
     closed |-> closed, escaped |-> escaped, fullAnswer |-> fullAnswer,
     results |-> results, prompt |-> prompt, cursor |-> cursor,
     providerChunks |-> providerChunks, calls |-> calls,
     provider |-> provider, contextParts |-> contextParts,
     cancelledAt |-> cancelledAt, self |-> self]

\* a second request arrives while the first one awaits: POST runs for it up
\* to its first await, the same way as StreamPOST
ConcurrentPOST(q, ok) ==
    /\ parked = Null
    /\ route = "stream"
    /\ pc # "idle"
    /\ parked' = Some(Locals)
    /\ self' = 2
    /\ question' = q
    /\ calls' = <<Call("findSimilarConversations", "index.query", q, ok)>>
    /\ pc' = "start"
    /\ externalKnowledge' = Null
    /\ events' = << >>
    /\ closed' = FALSE
    /\ escaped' = FALSE
    /\ fullAnswer' = ""
    /\ results' = << >>
    /\ prompt' = ""
    /\ cursor' = 0
    /\ providerChunks' = << >>
    /\ provider' = "none"
    /\ contextParts' = << >>
    /\ cancelledAt' = Null
    /\ UNCHANGED <<route, input, store, searchQuery, response, now,
                   conversations, subs, fetchIncludes, metrics>>

\* an event loop in which fullAnswer is one variable of the module, shared
\* by the requests
Yield_SharedAnswer ==
    /\ parked # Null
    /\ parked' = Some(Locals)
    /\ self' = parked[1].self
    /\ pc' = parked[1].pc
    /\ route' = parked[1].route
    /\ question' = parked[1].question
    /\ externalKnowledge' = parked[1].externalKnowledge
    /\ events' = parked[1].events
    /\ closed' = parked[1].closed
    /\ escaped' = parked[1].escaped
    /\ results' = parked[1].results
    /\ prompt' = parked[1].prompt
    /\ cursor' = parked[1].cursor
    /\ providerChunks' = parked[1].providerChunks
    /\ calls' = parked[1].calls
    /\ provider' = parked[1].provider
    /\ contextParts' = parked[1].contextParts
    /\ cancelledAt' = parked[1].cancelledAt
    /\ UNCHANGED <<fullAnswer, input, store, searchQuery, response, now,
                   conversations, subs, fetchIncludes, metrics>>

\* the running request awaits and the event loop resumes the other one
Yield ==
    /\ parked # Null
    /\ parked' = Some(Locals)
    /\ self' = parked[1].self
    /\ pc' = parked[1].pc
    /\ route' = parked[1].route
    /\ question' = parked[1].question
    /\ externalKnowledge' = parked[1].externalKnowledge
    /\ events' = parked[1].events
    /\ closed' = parked[1].closed
    /\ escaped' = parked[1].escaped
    /\ fullAnswer' = parked[1].fullAnswer
    /\ results' = parked[1].results
    /\ prompt' = parked[1].prompt
    /\ cursor' = parked[1].cursor
    /\ providerChunks' = parked[1].providerChunks
    /\ calls' = parked[1].calls
    /\ provider' = parked[1].provider
    /\ contextParts' = parked[1].contextParts
    /\ cancelledAt' = parked[1].cancelledAt
    /\ UNCHANGED <<input, store, searchQuery, response, now,
                   conversations, subs, fetchIncludes, metrics>>

\* the steps of the running request; the ids of two requests differ in
\* their random suffix
ConcurrentNext ==
    \/ \E q \in ConcurrentQuestions, ok \in BOOLEAN : StreamPOST(q, ok)
    \/ \E q \in ConcurrentQuestions, ok \in BOOLEAN : ConcurrentPOST(q, ok)
    \/ Yield
    \/ StreamStart
    \/ StreamCannedToken
    \/ StreamCannedDone
    \/ \E ok \in BOOLEAN, t \in Times :
          StreamCannedStore(ok, t, LearningSuffixes[self])
    \/ /\ pc = "query"
       /\ \E ok \in BOOLEAN, res \in ConcurrentResults : StreamQuery(ok, res)
    \/ \E ok \in BOOLEAN : StreamCreate(ok)
    \/ StreamChunk(ChunkOf(self))
    \/ StreamProviderError
    \/ StreamEnd
    \/ \E ok \in BOOLEAN, t \in Times :
          StreamStore(ok, t, LearningSuffixes[self])

ConcurrentSpec == Init /\ [][ConcurrentNext]_vars

(***************************************************************************)
(* Properties.                                                             *)
(***************************************************************************)
IsTerminal(e) == e.type \in {"done", "error"}
IsStreamRoute == route \in {"stream", "plainStream"}

CountType(evs, type) == Cardinality({i \in 1..Len(evs) : evs[i].type = type})

IsToken(e) == e.type = "token"
TokenContents(evs) ==
    LET tokens == SelectSeq(evs, IsToken)
    IN  [i \in 1..Len(tokens) |-> tokens[i].content]

EndsWithTerminal ==
    /\ closed
    /\ Len(events) > 0
    /\ IsTerminal(events[Len(events)])

TerminalOnlyLast ==
    \A i \in 1..Len(events) : IsTerminal(events[i]) => i = Len(events)

\* C1: on every streaming request, whatever the index, the provider and the
\* conversation store do, a terminal event (done or error) is only ever the
\* last event emitted, and the stream eventually is closed with a terminal
\* event as its last event.
C1_StreamReachesTerminalEvent ==
    /\ [](IsStreamRoute => TerminalOnlyLast)
    /\ [](closed => EndsWithTerminal)
    /\ (IsStreamRoute ~> EndsWithTerminal)

\* a request whose provider stream broke after a token was delivered
C1_Witness ==
    /\ route = "stream"
    /\ pc = "finished"
    /\ provider = "failed"
    /\ CountType(events, "token") > 0
    /\ events[Len(events)].type = "error"

StoreFailed ==
    \E i \in 1..Len(calls) : calls[i].op = "index.upsert" /\ ~calls[i].ok

\* C2: a failed conversation-store write is never propagated: the request
\* ends with its done event, no error event and no exception leaving the
\* handler.
C2_StoreFailureNotPropagated ==
    (route = "stream" /\ pc = "finished" /\ StoreFailed) =>
        /\ ~escaped
        /\ CountType(events, "error") = 0
        /\ events[Len(events)].type = "done"

NonEmptyChunk(content) == content # ""

\* C3: while the provider stream is open the token events are exactly the
\* non-empty deltas delivered so far, in provider order; when it has ended
\* without error the request ends with those tokens followed by exactly one
\* done event and no error event.
C3_TokensThenDone ==
    /\ provider \in {"open", "ended"} =>
          TokenContents(events) = SelectSeq(providerChunks, NonEmptyChunk)
    /\ (provider = "ended" /\ pc = "finished") =>
          /\ CountType(events, "done") = 1
          /\ CountType(events, "error") = 0
          /\ events[Len(events)].type = "done"

C3_Witness ==
    /\ route = "stream"
    /\ provider = "ended"
    /\ pc = "finished"
    /\ providerChunks = <<"a", "", "b">>
    /\ Len(contextParts) > 0

HasCall(by, op, ok) ==
    \E i \in 1..Len(calls) :
        calls[i].by = by /\ calls[i].op = op /\ calls[i].ok = ok

\* the streaming handler's own index query returned
StreamQueried == route = "stream" /\ HasCall("start", "index.query", TRUE)

\* C4: a resolver hit with confidence >= 0.9 is answered with no index query
\* and no provider call, and the resolver is the first thing the request
\* calls.
C4_ShortCircuitBypassesRetrieval ==
    (route = "stream" /\ shortCircuits(externalKnowledge)) =>
        /\ \A i \in 1..Len(calls) :
              calls[i].op \notin {"index.query", "groq.create"}
        /\ calls[1].op = "getExternalKnowledge"

LowConfidenceHit ==
    /\ route = "stream"
    /\ externalKnowledge # Null
    /\ externalKnowledge[1].confidence < HighConfidence

OnlyShortCircuitsHighConfidence ==
    (route = "stream" /\ pc = "extTokens") =>
        /\ externalKnowledge # Null
        /\ externalKnowledge[1].confidence >= HighConfidence

LowConfidenceRunsSemanticPath ==
    (LowConfidenceHit /\ pc # "query") =>
        \/ HasCall("start", "index.query", TRUE)
        \/ HasCall("start", "index.query", FALSE)

LowConfidenceIsLastResort ==
    (LowConfidenceHit /\ pc \in {"fallbackTokens", "cannedStore"}) =>
        /\ contextParts = << >>
        /\ fullAnswer = externalKnowledge[1].answer
        /\ ~HasCall("start", "groq.create", TRUE)
        /\ ~HasCall("start", "groq.create", FALSE)

PromptedWith(externalContext) ==
    (LowConfidenceHit /\ pc \in {"create", "streaming", "store"}) =>
        /\ contextParts # << >>
        /\ prompt = PromptOf(join(contextParts, "\n\n---\n\n"),
                             externalContext, question)

\* C5 as stated: only a hit with confidence >= 0.9 short-circuits; a hit
\* below 0.9 lets the semantic path run and adds nothing to the prompt; it is
\* the answer only when retrieval yields no usable context.
C5_LowConfidenceIgnored ==
    /\ OnlyShortCircuitsHighConfidence
    /\ LowConfidenceRunsSemanticPath
    /\ LowConfidenceIsLastResort
    /\ PromptedWith("")

\* C5 amended: only a hit with confidence >= 0.9 short-circuits; a hit below
\* 0.9 lets the semantic path run, and when retrieval yields usable context
\* its answer and source are appended to the prompt as additional context;
\* it is the answer only when retrieval yields no usable context.
C5_LowConfidenceAddsContext ==
    /\ OnlyShortCircuitsHighConfidence
    /\ LowConfidenceRunsSemanticPath
    /\ LowConfidenceIsLastResort
    /\ PromptedWith(externalContextOf(externalKnowledge))

C5_Witness ==
    /\ LowConfidenceHit
    /\ pc = "streaming"
    /\ includes(prompt, "ADDITIONAL CONTEXT:\n" \o WeatherAnswer)

IsSymbol(op) == op \in {"+", "-", "*", "/"}

ExactResult(a, op, b) ==
    CASE operatorMap(op) = "+" -> [n |-> a + b, d |-> 1]
      [] operatorMap(op) = "-" -> [n |-> a - b, d |-> 1]
      [] operatorMap(op) = "*" -> [n |-> a * b, d |-> 1]
      [] operatorMap(op) = "/" -> Norm(a, b)

\* a question the claim covers: a symbol operator anywhere, a word operator
\* after "what is"; a division by zero has no correct result and is left out
CoveredByCalculator(in) ==
    /\ IsSymbol(in.op) \/ toLowerCase(in.lead) = "what is "
    /\ ~(operatorMap(in.op) = "/" /\ in.b = 0)

\* C6: for every covered arithmetic question the resolver returns
\* "<a> <symbol> <b> = <result>" with the correct result, source calculator
\* and confidence 1.0.
C6_CalculatorAnswers ==
    (pc = "resolved" /\ CoveredByCalculator(input[1])) =>
        externalKnowledge =
            Hit(ToString(input[1].a) \o " " \o operatorMap(input[1].op) \o " "
                    \o ToString(input[1].b) \o " = "
                    \o NumberToString(ExactResult(input[1].a, input[1].op,
                                                  input[1].b)),
                "calculator", 100)

AtFloorWithContent(r) == r.score >= 50 /\ r.content # ""

OverFloorAndLong(r) ==
    /\ r.score > 50
    /\ Len(IF r.content # "" THEN r.content ELSE r.text) > 10

ContentOrText(r) == IF r.content # "" THEN r.content ELSE r.text

RECURSIVE PartsAtFloor(_)
PartsAtFloor(res) ==
    IF Len(res) = 0 THEN << >>
    ELSE (IF AtFloorWithContent(Head(res))
          THEN <<ContentOrText(Head(res))>> ELSE << >>)
            \o PartsAtFloor(Tail(res))

RECURSIVE PartsOverFloor(_)
PartsOverFloor(res) ==
    IF Len(res) = 0 THEN << >>
    ELSE (IF OverFloorAndLong(Head(res))
          THEN <<ContentOrText(Head(res))>> ELSE << >>)
            \o PartsOverFloor(Tail(res))

\* C7 as stated: the context keeps exactly the matches with score >= 0.5 and
\* non-empty content.
C7_KeepsFloorAndNonEmpty ==
    StreamQueried => contextParts = PartsAtFloor(results)

\* C7 amended: the context keeps exactly the matches whose score is strictly
\* above 0.5 and whose content (metadata.content, or metadata.text when the
\* content is empty) is longer than 10 characters, in result order.
C7_KeepsAboveFloorAndLong ==
    StreamQueried => contextParts = PartsOverFloor(results)

C7_Witness ==
    /\ StreamQueried
    /\ Len(results) = 2
    /\ results[2].score = 50
    /\ results[2].content # ""
    /\ Len(contextParts) = 1

\* C8: no query path returns, as a source or as context, a chunk whose score
\* is below 0.5.
C8_NothingBelowFloor ==
    /\ response # Null =>
          \A i \in 1..Len(response[1].sources) :
              response[1].sources[i].score >= 50
    /\ StreamQueried =>
          \A i \in 1..Len(contextParts) :
              \E j \in 1..Len(results) :
                  /\ results[j].score >= 50
                  /\ contextParts[i] \in {results[j].content, results[j].text}

NoSurvivor(res) ==
    \A i \in 1..Len(res) : res[i].score < 50 \/ res[i].content = ""

IsGeneration(c) ==
    c.op = "groq.create" /\ c.by \in {"start", "generateResponse",
                                       "formatForInterview"}

\* C9: when no match survives the filtering, no generation call is made and
\* the caller gets the no-information answer as a normal result.
C9_NoSurvivorNoGeneration ==
    /\ (pc = "returned" /\ HasCall("queryVectors", "index.query", TRUE)
            /\ NoSurvivor(results)) =>
          /\ \A i \in 1..Len(calls) : ~IsGeneration(calls[i])
          /\ response[1].success
          /\ response[1].answer \in {NoResultsAnswer, NoContentAnswer}
    /\ (pc = "finished" /\ StreamQueried /\ NoSurvivor(results)) =>
          /\ \A i \in 1..Len(calls) : ~IsGeneration(calls[i])
          /\ CountType(events, "error") = 0
          /\ events[Len(events)].type = "done"

\* C10: when the formatting call of the enhanced path fails, performRAGQuery
\* is invoked with the original question, exactly once.
C10_FormatFailureFallsBack ==
    (route = "enhanced" /\ pc = "returned"
            /\ HasCall("formatForInterview", "groq.create", FALSE)) =>
        Cardinality({i \in 1..Len(calls) :
            calls[i].op = "performRAGQuery" /\ calls[i].arg = question}) = 1

BatchRoute == route \in {"basic", "enhanced"}

\* the last call of the request failed inside performRAGQuery
BasicPathFailed ==
    /\ Len(calls) > 0
    /\ ~calls[Len(calls)].ok
    /\ calls[Len(calls)].by \in {"queryVectors", "generateResponse"}

\* C11: performRAGQuery and performEnhancedRAGQuery never end in an
\* exception: every request either waits on a call or has returned a
\* RAGResponse, and when performRAGQuery itself fails (directly or as the
\* fallback) the response is the fixed apology with success = false.
C11_BatchNeverThrows ==
    BatchRoute =>
        /\ pc \in {"ragQuery", "ragGenerate", "enhance", "enhancedQuery",
                   "format", "returned"}
        /\ pc = "returned" =>
              /\ response # Null
              /\ response[1].success \in BOOLEAN
        /\ (pc = "returned" /\ BasicPathFailed) =>
              /\ response[1].answer = ErrorAnswer
              /\ ~response[1].success
              /\ response[1].sources = << >>

C11_Witness ==
    /\ route = "enhanced"
    /\ pc = "returned"
    /\ HasCall("performEnhancedRAGQuery", "performRAGQuery", TRUE)
    /\ BasicPathFailed
    /\ response[1].answer = ErrorAnswer

IndexQueries == {i \in 1..Len(calls) : calls[i].op = "index.query"}

\* C12: when an index query of a batch request fails, the request returns
\* success = false and issues no second index query.
C12_RetrievalFailureNotRetried ==
    (BatchRoute /\ pc = "returned"
            /\ HasCall("queryVectors", "index.query", FALSE)) =>
        /\ ~response[1].success
        /\ Cardinality(IndexQueries) = 1

\* the client received a complete answer: tokens followed by a done event
AnswerDelivered ==
    /\ route = "stream"
    /\ pc = "finished"
    /\ CountType(events, "token") > 0
    /\ CountType(events, "done") = 1

ConversationsOf(q) ==
    {r \in store : r.type = "conversation" /\ r.question = q}

\* C13: every answered question creates a Conversation record: once a
\* request has delivered an answer to the client (generated, resolver or
\* canned conversational reply), exactly one conversation for that
\* exchange has been written to the store.
C13_AnsweredQuestionStored ==
    AnswerDelivered => Cardinality(ConversationsOf(question)) = 1


InIndex(id) == \E r \in store : r.id = id

\* C14: a stored Conversation is never deleted: after any sequence of
\* operations (stores, feedback submissions, reinforcement writes,
\* reload), every conversation id that storeConversation returned is
\* still present in the index.
C14_ConversationsNeverDeleted ==
    route = "learning" =>
        \A i \in 1..Len(conversations) : InIndex(conversations[i].id)

HasType(r, type) == "type" \in DOMAIN r /\ r.type = type

ImprovementTasksOf(id) ==
    {r \in store : HasType(r, "improvement_needed")
                    /\ r.originalConversationId = id}

ReinforcementsOf(id) ==
    {r \in store : HasType(r, "reinforcement") /\ r.originalId = id}

\* submission s was accepted (HTTP 200) with this feedback
Accepted(s, feedback) ==
    /\ subs[s].pc = "responded"
    /\ subs[s].status = 200
    /\ subs[s].feedback = feedback

OnlySubmission(s) == \A o \in Submissions \ {s} : subs[o].pc = "idle"

StoredFeedback(id) ==
    LET r == CHOOSE x \in store : x.id = id
    IN  IF "feedback" \in DOMAIN r THEN r.feedback ELSE Null

\* C15: submitting negative feedback once for an existing conversation X
\* sets X's stored feedback to negative and creates exactly one
\* ImprovementTask, with status "pending" and originalConversationId = X,
\* and creates no ReinforcementRecord.
C15_NegativeCreatesOneTask ==
    route = "learning" =>
        \A s \in Submissions :
            (Accepted(s, "negative") /\ OnlySubmission(s)
                /\ InIndex(subs[s].conversationId)) =>
                /\ StoredFeedback(subs[s].conversationId) = Some("negative")
                /\ Cardinality(ImprovementTasksOf(subs[s].conversationId)) = 1
                /\ \A r \in ImprovementTasksOf(subs[s].conversationId) :
                        r.status = "pending"
                /\ ReinforcementsOf(subs[s].conversationId) = {}

Settled == \A s \in Submissions : subs[s].pc \in {"idle", "responded"}

AcceptedFor(id, feedback) ==
    {s \in Submissions : Accepted(s, feedback) /\ subs[s].conversationId = id}

ConversationOf(id) ==
    LET i == CHOOSE k \in 1..Len(conversations) : conversations[k].id = id
    IN  conversations[i]

CarriesConversation(r, id) ==
    /\ r.weight = ReinforcementWeight
    /\ "question" \in DOMAIN r /\ r.question = ConversationOf(id).question
    /\ "answer" \in DOMAIN r /\ r.answer = ConversationOf(id).answer
    /\ "category" \in DOMAIN r

\* C16: each positive feedback submission for an existing conversation X
\* creates exactly one new ReinforcementRecord (type reinforcement,
\* originalId = X, weight 1.5, carrying X's question, answer and category)
\* and no ImprovementTask, so two positive submissions for X leave two
\* ReinforcementRecords for X.
C16_PositiveCreatesOneRecordEach ==
    (route = "learning" /\ Settled) =>
        \A id \in KnownIds :
            (InIndex(id) /\ AcceptedFor(id, "negative") = {}) =>
                /\ Cardinality(ReinforcementsOf(id))
                        = Cardinality(AcceptedFor(id, "positive"))
                /\ \A r \in ReinforcementsOf(id) : CarriesConversation(r, id)
                /\ ImprovementTasksOf(id) = {}

\* C17: records written by distinct operations get distinct ids within
\* their type: two feedback submissions that each wrote a
\* ReinforcementRecord or ImprovementTask wrote them under different ids
\* (so neither overwrote the other's), and two stored conversations have
\* different ids.
C17_DistinctOperationsDistinctIds ==
    route = "learning" =>
        /\ \A s1 \in Submissions, s2 \in Submissions :
              (s1 # s2 /\ subs[s1].wrote # Null /\ subs[s2].wrote # Null) =>
                  subs[s1].wrote # subs[s2].wrote
        /\ \A i \in 1..Len(conversations), k \in 1..Len(conversations) :
              i # k => conversations[i].id # conversations[k].id

FeedbackFields == {"feedback", "feedbackTimestamp"}

\* submission s takes a step after another submission for the same
\* conversation was accepted
SecondSubmissionStep(s) ==
    /\ subs'[s] # subs[s]
    /\ subs[s].pc # "idle"
    /\ \E o \in Submissions \ {s} :
          /\ subs[o].pc = "responded"
          /\ subs[o].status = 200
          /\ subs[o].conversationId = subs[s].conversationId

WithoutFeedback(r) == Pick(r, DOMAIN r \ FeedbackFields)

OnlyFeedbackChanged(id) ==
    WithoutFeedback(CHOOSE x \in store' : x.id = id)
        = WithoutFeedback(CHOOSE x \in store : x.id = id)

DerivedRecordsKept(id) ==
    \A r \in ReinforcementsOf(id) \cup ImprovementTasksOf(id) : r \in store'

StoredRecord(id) == CHOOSE x \in store : x.id = id

SameExchange(r, c) ==
    /\ "question" \in DOMAIN r /\ r.question = c.question
    /\ "answer" \in DOMAIN r /\ r.answer = c.answer
    /\ "timestamp" \in DOMAIN r /\ r.timestamp = c.timestamp

\* C19: round trip: after storeConversation, the index holds under the
\* returned id a record with the question, answer and timestamp that were
\* stored, and this still holds after any number of feedback updates.
C19_RoundTrip ==
    route = "learning" =>
        \A i \in 1..Len(conversations) :
            /\ InIndex(conversations[i].id)
            /\ SameExchange(StoredRecord(conversations[i].id), conversations[i])

\* both submissions updated the feedback of the same stored conversation,
\* at a later millisecond than it was stored
C19_Witness ==
    /\ route = "learning"
    /\ Accepted(1, "positive")
    /\ Accepted(2, "negative")
    /\ subs[1].conversationId = subs[2].conversationId
    /\ InIndex(subs[1].conversationId)
    /\ StoredFeedback(subs[1].conversationId) # Null
    /\ StoredRecord(subs[1].conversationId).feedbackTimestamp
            > StoredRecord(subs[1].conversationId).timestamp

\* C20: once the client has cancelled the stream, the handler reads no
\* further chunk from the provider stream and does not read it to its end.
C20_CancelStopsConsumption ==
    cancelledAt # Null =>
        /\ Len(providerChunks) = cancelledAt[1]
        /\ provider # "ended"

EventTypes == {"status", "token", "done", "error"}

\* C21: every event record the streaming endpoint emits, on every path
\* through the handler, has a type in {status, token, done, error}.
C21_EventTypesInContract ==
    IsStreamRoute => \A i \in 1..Len(events) : events[i].type \in EventTypes

ExternalCalls == {"index.query", "groq.create"}

\* C22: a request whose question is empty or only whitespace is rejected
\* before any index query or inference-provider call is made.
C22_BlankQuestionMakesNoCall ==
    ((IsStreamRoute \/ BatchRoute) /\ trim(question) = "") =>
        \A i \in 1..Len(calls) : calls[i].op \notin ExternalCalls

ReloadSucceeded ==
    route = "learning" /\ response # Null /\ response[1].success

\* C23: whenever a reload operation has reported success, the index holds
\* one record for every profile chunk, whatever it held before the call.
C23_ReloadSuccessLoadsCorpus ==
    ReloadSucceeded => ProfileChunks \subseteq store

\* confidence of the handlers, in the order date/time, arithmetic,
\* location, definition, weather placeholder
HandlerConfidence == <<100, 100, 100, 95, 50>>

Resolved == route = "resolver" /\ pc = "resolved"

FirstMatchOf(hits, ek) ==
    IF \A k \in 1..Len(hits) : hits[k] = Null THEN ek = Null
    ELSE /\ ek = hits[Min({k \in 1..Len(hits) : hits[k] # Null})]
         /\ ek[1].confidence =
                HandlerConfidence[Min({k \in 1..Len(hits) : hits[k] # Null})]

\* C24: getExternalKnowledge returns the result of the first handler, in
\* the order date/time, arithmetic, location, definition, weather
\* placeholder, that matches the query, null when none matches, with
\* confidence 1.0, 1.0, 1.0, 0.95 and 0.5 respectively.
C24_FirstMatchingHandlerWins ==
    Resolved =>
        FirstMatchOf(<<getCurrentDateTime(question), calculateMath(question),
                       getLocationInfo(question), getDefinition(question),
                       getWeatherInfo(question)>>, externalKnowledge)

\* a query that the clock and the calculator both match was answered by
\* the clock
C24_Witness ==
    /\ Resolved
    /\ getCurrentDateTime(question) # Null
    /\ calculateMath(question) # Null
    /\ externalKnowledge # Null
    /\ externalKnowledge[1].source = "system_time"

\* the shortcut patterns of the table that a question matches
ShortcutsMatching ==
    [q \in BatchQuestions |->
        {k \in 1..Len(simpleQuestions) :
            \E w \in simpleQuestions[k][1] : includes(toLowerCase(q), w)}]

EnhancedRequest == route = "enhanced" /\ trim(question) # ""

EnhanceCalls ==
    {i \in 1..Len(calls) : calls[i].by = "enhanceQuery"}

\* C25: for a question that matches at least one shortcut pattern,
\* enhanceQuery returns the configured query of the first matching pattern
\* in table order, on every call, and calls no inference provider.
C25_ShortcutReturnsConfiguredQuery ==
    (EnhancedRequest /\ ShortcutsMatching[question] # {}) =>
        /\ \E k \in ShortcutsMatching[question] :
              /\ \A j \in ShortcutsMatching[question] : k <= j
              /\ searchQuery = simpleQuestions[k][2]
        /\ EnhanceCalls = {}

\* a question matching two patterns went through the whole pipeline
C25_Witness ==
    /\ EnhancedRequest
    /\ Cardinality(ShortcutsMatching[question]) > 1
    /\ pc = "returned"
    /\ searchQuery = "name identity professional background summary"

EnhanceFailed ==
    \E i \in EnhanceCalls : ~calls[i].ok

\* C26: when no shortcut matches and the provider call of enhanceQuery
\* fails, enhanceQuery returns the original question and does not throw:
\* the index is then queried with the original question.
C26_EnhanceFailureKeepsQuestion ==
    (EnhancedRequest /\ EnhanceFailed) =>
        /\ ShortcutsMatching[question] = {}
        /\ searchQuery = question
        /\ pc # "threw"
        /\ \A i \in IndexQueries : calls[i].arg = question

\* the provider failed, the index was queried and the request returned
C26_Witness ==
    /\ EnhancedRequest
    /\ EnhanceFailed
    /\ IndexQueries # {}
    /\ pc = "returned"
    /\ response # Null
    /\ response[1].success

Categories ==
    {"technical_skills", "projects", "experience", "education", "personal",
     "general"}

\* the metrics were read and the index answered with some conversation
MetricsReturned ==
    /\ route = "stream"
    /\ pc = "finished"
    /\ metrics # Null
    /\ metrics[1].totalConversations > 0

TopicCount(c) ==
    IF c \in DOMAIN metrics[1].popularTopics
    THEN metrics[1].popularTopics[c] ELSE 0

ConversationsAbout(c) ==
    {r \in store : /\ r.type = "conversation"
                   /\ \E k \in 1..Len(TopicsTable[r.question]) :
                         TopicsTable[r.question][k] = c}

\* C27: the topic table of getLearningMetrics counts, for each category,
\* the stored conversations whose question extractTopics assigns to that
\* category, a question of several categories once under each of them.
C27_TopicTableCountsEveryCategory ==
    MetricsReturned =>
        \A c \in Categories : TopicCount(c) = Cardinality(ConversationsAbout(c))

\* the conversations a request has stored hold the tokens of its stream
OwnAnswerStored(request) ==
    \A i \in 1..Len(request.calls) :
        (request.calls[i].op = "index.upsert" /\ request.calls[i].ok) =>
            \E r \in store :
                /\ r.id = request.calls[i].arg
                /\ r.answer = join(TokenContents(request.events), "")

\* while the provider stream of a request is readable, the tokens on the
\* request's stream are the deltas of its own provider stream
OwnTokensStreamed(request) ==
    request.provider \in {"open", "ended"} =>
        TokenContents(request.events) = request.providerChunks

Requests == {Locals} \cup {parked[i] : i \in 1..Len(parked)}

\* C28: for each streaming request that stores a conversation, the stored
\* answer is the in-order concatenation of the token events of that
\* request's own stream, also when two requests are processed
\* concurrently; no token of one request shows up in the other's stream
\* or stored answer.
C28_StoredAnswerIsOwnTokens ==
    route = "stream" =>
        \A request \in Requests :
            OwnAnswerStored(request) /\ OwnTokensStreamed(request)

\* the second request has streamed and stored its answer while the first
\* one, suspended, is still in the middle of its provider stream
C28_Witness ==
    /\ parked # Null
    /\ self = 2
    /\ pc = "finished"
    /\ TokenContents(events) = <<"b", "b">>
    /\ \E r \in store : r.answer = "bb"
    /\ parked[1].pc = "streaming"
    /\ TokenContents(parked[1].events) = <<"a">>

\* C29: whenever the feedback endpoint answers success for feedback f on
\* conversation X, the side-effect record of f for X is in the index (a
\* ReinforcementRecord for positive, an ImprovementTask for negative): a
\* failed write of that record is never answered with success.
C29_SuccessMeansRecordWritten ==
    route = "learning" =>
        \A s \in Submissions :
            /\ Accepted(s, "positive") =>
                    ReinforcementsOf(subs[s].conversationId) # {}
            /\ Accepted(s, "negative") =>
                    ImprovementTasksOf(subs[s].conversationId) # {}

\* submission s, made for an id the index does not hold, takes a step
UnknownIdStep(s) ==
    /\ subs'[s] # subs[s]
    /\ \/ subs[s].pc = "fetch" /\ ~InIndex(subs[s].conversationId)
       \/ subs'[s].pc = "fetch" /\ ~InIndex(subs'[s].conversationId)

\* C30: a feedback submission for a conversation id that is not in the
\* index ends in an error response and leaves the index unchanged: it
\* writes no conversation record, no ImprovementTask and no
\* ReinforcementRecord.
C30_UnknownIdRejected ==
    [][\A s \in Submissions :
          UnknownIdStep(s) =>
              /\ store' = store
              /\ subs[s].pc = "fetch" =>
                    (subs'[s].pc = "responded" /\ subs'[s].status = 500)]_vars

\* no conversation was ever stored, a submission was made and answered with
\* an error, and the index holds the profile chunks only
C30_Witness ==
    /\ route = "learning"
    /\ conversations = << >>
    /\ subs[1].pc = "responded"
    /\ subs[1].status = 500
    /\ store = ProfileChunks

====
